---- MODULE Spec2Model ----
(***************************************************************************)
(* The Hive-style partitioned warehouse of RetailIQ: the builder script    *)
(* src/04_storage/hive_style_warehouse.py, which lays six tables out as    *)
(* <root>/<table>/<col>=<value>/.../data.parquet with a _METADATA.json     *)
(* sidecar per table, and the three HiveWarehouse readers:                 *)
(* src/04_storage/hive_query_engine.py, src/04_storage/hive_analytics.py   *)
(* and src/04_storage/verify_all.py.  With them, the two Type 2 history    *)
(* scripts src/03_transformation/scd_customer.py and scd_product.py, which *)
(* keep data/history/dim_*_scd2.parquet, and the row-level security of     *)
(* src/08_security/implement_row_level_security.py.                        *)
(*                                                                         *)
(* Python strings are sequences of one-character strings, so that          *)
(* str(), zfill(), endswith() and split('=', 1) are computed, not assumed. *)
(* A DataFrame is a sequence of rows; a row is the sequence of its         *)
(* (column, value) items in column order; a value is tagged with its       *)
(* Python type.  The order in which glob lists files is not specified; the *)
(* model lists them in the order of their creation, and every property     *)
(* below reads a result as a bag of rows, so that no order matters.        *)
(***************************************************************************)
EXTENDS Integers, Sequences, FiniteSets, Bags, TLC

(***************************************************************************)
(* Bounds of the model.                                                    *)
(***************************************************************************)
\* most rows of the fact_sales source table
MaxSales == 2
\* most rows of the dim_customer source table
MaxCust == 1

(***************************************************************************)
(* Python strings and values.                                              *)
(***************************************************************************)
Range(s) == {s[i] : i \in DOMAIN s}

PyInt(n) == [t |-> "int", v |-> n]
PyStr(s) == [t |-> "str", v |-> s]
PyDate(y, m) == [t |-> "date", v |-> <<y, m>>]
\* a float, by its whole part and the digits after the point (no trailing zero)
PyFloat(whole, frac) == [t |-> "float", v |-> <<whole, frac>>]
NaN == [t |-> "null", v |-> 0]

Digit(d) == <<"0", "1", "2", "3", "4", "5", "6", "7", "8", "9">>[d + 1]

\* decimal digits of a natural number, as str(n) and f'{n}' print it
RECURSIVE IntStr(_)
IntStr(n) == IF n < 10 THEN <<Digit(n)>> ELSE IntStr(n \div 10) \o <<Digit(n % 10)>>

\* str(value), which is also what an f-string field f'{value}' renders
str(val) == IF val.t = "int" THEN IntStr(val.v)
            ELSE IF val.t = "str" THEN val.v
            ELSE IF val.t = "float"
            THEN IntStr(val.v[1]) \o <<".">> \o (IF val.v[2] = <<>> THEN <<"0">> ELSE val.v[2])
            ELSE <<"n", "a", "n">>

\* s.zfill(width): pad with "0" on the left up to width (unsigned strings)
RECURSIVE zfill(_, _)
zfill(s, width) == IF Len(s) >= width THEN s ELSE zfill(<<"0">> \o s, width)

endswith(s, suffix) ==
    /\ Len(s) >= Len(suffix)
    /\ SubSeq(s, Len(s) - Len(suffix) + 1, Len(s)) = suffix

\* column names and partition values that occur in the warehouse
s_region == <<"r", "e", "g", "i", "o", "n">>
s_Region == <<"R", "e", "g", "i", "o", "n">>
s_category == <<"c", "a", "t", "e", "g", "o", "r", "y">>
s_Category == <<"C", "a", "t", "e", "g", "o", "r", "y">>
s_year == <<"y", "e", "a", "r">>
s_date == <<"d", "a", "t", "e">>
s_date_sk == <<"d", "a", "t", "e", "_", "s", "k">>
s_order_year == <<"o", "r", "d", "e", "r", "_", "y", "e", "a", "r">>
s_order_month == <<"o", "r", "d", "e", "r", "_", "m", "o", "n", "t", "h">>
s_ship_year == <<"s", "h", "i", "p", "_", "y", "e", "a", "r">>
s_ship_month == <<"s", "h", "i", "p", "_", "m", "o", "n", "t", "h">>
s_customer_sk == <<"c", "u", "s", "t", "o", "m", "e", "r", "_", "s", "k">>
s_product_sk == <<"p", "r", "o", "d", "u", "c", "t", "_", "s", "k">>
s_location_sk == <<"l", "o", "c", "a", "t", "i", "o", "n", "_", "s", "k">>
s_Order_ID == <<"O", "r", "d", "e", "r", "_", "I", "D">>
s_month_suffix == <<"_", "m", "o", "n", "t", "h">>
\* table names
t_dim_customer == <<"d", "i", "m", "_", "c", "u", "s", "t", "o", "m", "e", "r">>
t_dim_product == <<"d", "i", "m", "_", "p", "r", "o", "d", "u", "c", "t">>
t_dim_location == <<"d", "i", "m", "_", "l", "o", "c", "a", "t", "i", "o", "n">>
t_dim_date == <<"d", "i", "m", "_", "d", "a", "t", "e">>
t_fact_sales == <<"f", "a", "c", "t", "_", "s", "a", "l", "e", "s">>
t_fact_shipments == <<"f", "a", "c", "t", "_", "s", "h", "i", "p", "m", "e", "n", "t", "s">>
t_dim_store == <<"d", "i", "m", "_", "s", "t", "o", "r", "e">>
East == <<"E", "a", "s", "t">>
West == <<"W", "e", "s", "t">>
South == <<"S", "o", "u", "t", "h">>
Furniture == <<"F", "u", "r", "n", "i", "t", "u", "r", "e">>
\* a value with the path separator in it, and one with '=' in it
NorthEast == <<"N", "/", "E">>
AB == <<"A", "=", "B">>
Technology == <<"T", "e", "c", "h", "n", "o", "l", "o", "g", "y">>

(***************************************************************************)
(* DataFrames.                                                             *)
(***************************************************************************)
\* row[col] = value: the column is overwritten in place, or added last
assign(row, col, value) ==
    IF \E i \in DOMAIN row : row[i][1] = col
    THEN [i \in DOMAIN row |-> IF row[i][1] = col THEN <<col, value>> ELSE row[i]]
    ELSE Append(row, <<col, value>>)

columns(row) == {row[i][1] : i \in DOMAIN row}

\* row[col]
get(row, col) == row[CHOOSE i \in DOMAIN row : row[i][1] = col][2]

\* a drop that leaves every column in place
drop_nothing(df, cols) == df

\* df.drop(columns=cols)
drop(df, cols) == [i \in DOMAIN df |-> SelectSeq(df[i], LAMBDA item : item[1] \notin cols)]

\* series.unique(): the distinct values in order of first appearance
RECURSIVE unique(_)
unique(s) ==
    IF s = <<>> THEN <<>>
    ELSE LET rest == unique(SubSeq(s, 1, Len(s) - 1))
             x == s[Len(s)]
         IN IF x \in Range(rest) THEN rest ELSE Append(rest, x)

\* series.dropna()
dropna(s) == SelectSeq(s, LAMBDA x : x # NaN)

\* pd.concat(dfs, ignore_index=True)
RECURSIVE concat(_)
concat(dfs) == IF dfs = <<>> THEN <<>> ELSE Head(dfs) \o concat(Tail(dfs))

\* a row as the function from its columns to their values, and a DataFrame
\* as the bag of its rows
RowFn(row) == [c \in columns(row) |-> get(row, c)]
SeqToBag(s) == [x \in Range(s) |-> Cardinality({i \in DOMAIN s : s[i] = x})]
Rows(df) == SeqToBag([i \in DOMAIN df |-> RowFn(df[i])])

(***************************************************************************)
(* The source tables data/warehouse/*.parquet that the builder loads.      *)
(* Only the columns the warehouse layer looks at are kept: the surrogate   *)
(* key of each row, the column a dimension is partitioned by, and the      *)
(* date_sk a fact row is dated by.  A date is its (year, month).           *)
(***************************************************************************)
Tables == {t_dim_customer, t_dim_product, t_dim_location, t_dim_date,
           t_fact_sales, t_fact_shipments}

\* the calendar of dim_date: date_sk i is the i-th date (build_dimensions.py
\* numbers the distinct dates 1..n)
Calendar == << <<2016, 1>>, <<2016, 11>>, <<2017, 11>>, <<2017, 12>> >>

RegionValues == <<PyStr(East), PyStr(West), NaN, PyStr(NorthEast), PyStr(AB)>>

NonDecreasing(n, k) ==
    {f \in [1..n -> 1..k] : \A i \in 1..(n - 1) : f[i] <= f[i + 1]}

dim_date_rows ==
    [i \in DOMAIN Calendar |->
        << <<s_date_sk, PyInt(i)>>, <<s_date, PyDate(Calendar[i][1], Calendar[i][2])>>,
           <<s_year, PyInt(Calendar[i][1])>> >>]

\* a fact table whose i-th row is dated by date_sk f[i]
fact_rows(f) ==
    [i \in DOMAIN f |-> << <<s_Order_ID, PyInt(i)>>, <<s_date_sk, PyInt(f[i])>> >>]

\* a dim_customer whose i-th customer lives in region RegionValues[f[i]]
customer_rows(f) ==
    [i \in DOMAIN f |-> << <<s_customer_sk, PyInt(i)>>, <<s_Region, RegionValues[f[i]]>> >>]

dim_product_rows ==
    << << <<s_product_sk, PyInt(1)>>, <<s_Category, PyStr(Furniture)>> >>,
       << <<s_product_sk, PyInt(2)>>, <<s_Category, PyStr(Technology)>> >> >>

dim_location_rows == << << <<s_location_sk, PyInt(1)>>, <<s_Region, PyStr(East)>> >> >>

SalesChoices == UNION {NonDecreasing(n, Len(Calendar)) : n \in 0..MaxSales}
CustChoices == UNION {NonDecreasing(n, Len(RegionValues)) : n \in 0..MaxCust}

DefaultSales == <<3, 3, 3, 4, 4>>
DefaultCust == <<1, 1, 2>>
DefaultShipments == <<1, 4>>

Source(status, cust, sales) ==
    [status |-> status,
     dim_customer |-> customer_rows(cust),
     dim_product |-> dim_product_rows,
     dim_location |-> dim_location_rows,
     dim_date |-> dim_date_rows,
     fact_sales |-> fact_rows(sales),
     fact_shipments |-> fact_rows(DefaultShipments)]

\* status: every source file is there and loads ("ok"), one is missing
\* ("missing"), or one is there but pd.read_parquet fails on it ("corrupt")
Sources ==
    {Source("ok", DefaultCust, f) : f \in SalesChoices}
    \cup {Source("ok", f, DefaultSales) : f \in CustChoices}
    \cup {Source(st, DefaultCust, DefaultSales) : st \in {"missing", "corrupt"}}

(***************************************************************************)
(* The warehouse tree: the data files in the order of their creation, each *)
(* with its table, the directories between the table root and data.parquet *)
(* and its rows; a directory exists in the model when a data file lies     *)
(* under it.  The sidecars are a function from table name to metadata.     *)
(***************************************************************************)
FilePath(table, dirs) == [table |-> table, dirs |-> dirs]

path_of(file) == FilePath(file.table, file.dirs)

EmptyWarehouse == [files |-> <<>>, sidecars |-> <<>>]

\* df.to_parquet(path): the file is created, or replaced
to_parquet(files, path, df) ==
    LET file == [table |-> path.table, dirs |-> path.dirs, df |-> df]
    IN IF \E i \in DOMAIN files : path_of(files[i]) = path
       THEN [i \in DOMAIN files |-> IF path_of(files[i]) = path THEN file ELSE files[i]]
       ELSE Append(files, file)

\* json.dump(metadata) into <table>/_METADATA.json
write_metadata(sidecars, table, metadata) ==
    [t \in (DOMAIN sidecars) \cup {table} |-> IF t = table THEN metadata ELSE sidecars[t]]

\* the path segment f'{col}={value}'
segment(col, value_str) == col \o <<"=">> \o value_str

column(df, col) == [i \in DOMAIN df |-> get(df[i], col)]

\* the components of a relative path: the text between the separators
RECURSIVE path_parts(_)
path_parts(text) ==
    IF "/" \notin Range(text) THEN <<text>>
    ELSE LET k == CHOOSE i \in DOMAIN text :
                      text[i] = "/" /\ \A j \in 1..(i - 1) : text[j] # "/"
         IN <<SubSeq(text, 1, k - 1)>> \o path_parts(SubSeq(text, k + 1, Len(text)))

\* os.path.join(root, table, *segments), or the f-string that puts '/'
\* between them: the directories below the table that the path names
os_path_join(segments) == concat([i \in DOMAIN segments |-> path_parts(segments[i])])

(***************************************************************************)
(* The builder, hive_style_warehouse.py.                                   *)
(***************************************************************************)
\* the rows of df whose column col holds value, without the columns cols
partition_data(df, col, value, cols) ==
    drop(SelectSeq(df, LAMBDA r : get(r, col) = value), cols)

\* Steps 1 and 2: one directory <dir_col>=<value> per distinct non-null value
\* of the column src_col, then the sidecar
RECURSIVE write_dim_partitions(_, _, _, _, _, _)
write_dim_partitions(files, table, df, src_col, dir_col, values) ==
    IF values = <<>> THEN files
    ELSE LET value == Head(values)
             partition_path == FilePath(table, os_path_join(<<segment(dir_col, str(value))>>))
         IN write_dim_partitions(
                to_parquet(files, partition_path,
                           partition_data(df, src_col, value, {src_col})),
                table, df, src_col, dir_col, Tail(values))

partition_dim(w, table, df, src_col, dir_col) ==
    LET values == unique(dropna(column(df, src_col)))
    IN [files |-> write_dim_partitions(w.files, table, df, src_col, dir_col, values),
        sidecars |-> write_metadata(w.sidecars, table,
                        [table_name |-> table,
                         partition_column |-> src_col,
                         partitions |-> values,
                         record_count |-> Len(df)])]

Step1(w, src) == partition_dim(w, t_dim_customer, src.dim_customer, s_Region, s_region)

Step2(w, src) == partition_dim(w, t_dim_product, src.dim_product, s_Category, s_category)

\* sorted(values) of integers
sorted(values) == SortSeq(values, LAMBDA a, b : a.v < b.v)

RECURSIVE write_year_partitions(_, _, _, _)
write_year_partitions(files, table, df, years) ==
    IF years = <<>> THEN files
    ELSE LET year == Head(years)
             partition_path == FilePath(table, os_path_join(<<segment(s_year, str(year))>>))
         IN write_year_partitions(
                to_parquet(files, partition_path,
                           partition_data(df, s_year, year, {s_year})),
                table, df, Tail(years))

\* Step 3: dim_date by the year of its date column
Step3(w, src) ==
    LET dim_date_copy == [i \in DOMAIN src.dim_date |->
                             assign(src.dim_date[i], s_year,
                                    PyInt(get(src.dim_date[i], s_date).v[1]))]
        years == unique(column(dim_date_copy, s_year))
    IN [files |-> write_year_partitions(w.files, t_dim_date, dim_date_copy, sorted(years)),
        sidecars |-> write_metadata(w.sidecars, t_dim_date,
                        [table_name |-> t_dim_date,
                         partition_column |-> s_year,
                         partitions |-> sorted(years),
                         record_count |-> Len(src.dim_date)])]

\* Step 4: dim_location, one file under the table root
Step4(w, src) ==
    [files |-> to_parquet(w.files, FilePath(t_dim_location, <<>>), src.dim_location),
     sidecars |-> write_metadata(w.sidecars, t_dim_location,
                     [table_name |-> t_dim_location,
                      partitioned |-> FALSE,
                      record_count |-> Len(src.dim_location)])]

\* fact.merge(dim_date[['date_sk', 'date']], on='date_sk', how='left'): every
\* fact row once per dim_date row of its date_sk (every date_sk of a fact
\* table is one of dim_date, build_facts.py:59-63)
RECURSIVE merge(_, _)
merge(fact, dim_date) ==
    IF fact = <<>> THEN <<>>
    ELSE LET r == Head(fact)
             hits == SelectSeq(dim_date, LAMBDA d : get(d, s_date_sk) = get(r, s_date_sk))
         IN [i \in DOMAIN hits |-> assign(r, s_date, get(hits[i], s_date))]
            \o merge(Tail(fact), dim_date)

\* drop_duplicates().sort_values([year, month]) of the (year, month) pairs
sort_values(combos) ==
    SortSeq(combos, LAMBDA a, b : a[1] < b[1] \/ (a[1] = b[1] /\ a[2] < b[2]))

RECURSIVE write_month_partitions(_, _, _, _, _, _)
write_month_partitions(files, table, df, year_col, month_col, combos) ==
    IF combos = <<>> THEN files
    ELSE LET year == Head(combos)[1]
             month == Head(combos)[2]
             partition_path ==
                 FilePath(table, os_path_join(<<segment(year_col, IntStr(year)),
                                                segment(month_col, zfill(IntStr(month), 2))>>))
             month_data ==
                 drop(SelectSeq(df, LAMBDA r : /\ get(r, year_col) = PyInt(year)
                                               /\ get(r, month_col) = PyInt(month)),
                      {year_col, month_col, s_date})
         IN write_month_partitions(to_parquet(files, partition_path, month_data),
                                   table, df, year_col, month_col, Tail(combos))

\* Steps 5 and 6: a fact table by the year and month of its date
partition_fact(w, table, fact, dim_date, year_col, month_col) ==
    LET merged == merge(fact, dim_date)
        with_dates == [i \in DOMAIN merged |->
                          assign(assign(merged[i], year_col,
                                        PyInt(get(merged[i], s_date).v[1])),
                                 month_col, PyInt(get(merged[i], s_date).v[2]))]
        year_month_combo ==
            sort_values(unique([i \in DOMAIN with_dates |->
                                   <<get(with_dates[i], year_col).v,
                                     get(with_dates[i], month_col).v>>]))
    IN [files |-> write_month_partitions(w.files, table, with_dates,
                                         year_col, month_col, year_month_combo),
        sidecars |-> write_metadata(w.sidecars, table,
                        [table_name |-> table,
                         partition_columns |-> <<year_col, month_col>>,
                         partitions |-> year_month_combo,
                         record_count |-> Len(fact)])]

Step5(w, src) ==
    partition_fact(w, t_fact_sales, src.fact_sales, src.dim_date, s_order_year, s_order_month)

Step6(w, src) ==
    partition_fact(w, t_fact_shipments, src.fact_shipments, src.dim_date,
                   s_ship_year, s_ship_month)

\* the six steps on the tree as it is found, without the rmtree
hive_style_warehouse_merging(w, src) ==
    IF src.status \in {"missing", "corrupt"} THEN w
    ELSE Step6(Step5(Step4(Step3(Step2(Step1(w, src), src), src), src), src), src)

\* the whole script: exit(1) on a missing source before anything is touched;
\* rmtree and makedirs of the warehouse; exit(1) when a source does not load;
\* then the six steps
hive_style_warehouse(w, src) ==
    IF src.status = "missing" THEN w
    ELSE IF src.status = "corrupt" THEN EmptyWarehouse
    ELSE Step6(Step5(Step4(Step3(Step2(Step1(EmptyWarehouse, src), src), src), src), src), src)

\* the _METADATA.json of a table between open(path, 'w') and the end of
\* json.dump: its text is not JSON
Unreadable == [unreadable |-> TRUE]

\* the writes of one step in the order the step makes them: the data files,
\* then the sidecar, which open() creates empty and json.dump fills
step_writes(w) ==
    [i \in DOMAIN w.files |-> [op |-> "to_parquet", file |-> w.files[i]]]
    \o LET table == CHOOSE t \in DOMAIN w.sidecars : TRUE
       IN << [op |-> "open", table |-> table],
             [op |-> "json.dump", table |-> table, metadata |-> w.sidecars[table]] >>

\* the writes of the six steps
writes(src) ==
    step_writes(Step1(EmptyWarehouse, src)) \o step_writes(Step2(EmptyWarehouse, src))
    \o step_writes(Step3(EmptyWarehouse, src)) \o step_writes(Step4(EmptyWarehouse, src))
    \o step_writes(Step5(EmptyWarehouse, src)) \o step_writes(Step6(EmptyWarehouse, src))

\* the tree after one write
write(w, step) ==
    IF step.op = "to_parquet"
    THEN [files |-> to_parquet(w.files, path_of(step.file), step.file.df),
          sidecars |-> w.sidecars]
    ELSE [files |-> w.files,
          sidecars |-> write_metadata(w.sidecars, step.table,
                                      IF step.op = "open" THEN Unreadable
                                      ELSE step.metadata)]

\* the table directories in the order of their creation
TableOrder == <<t_dim_customer, t_dim_product, t_dim_date, t_dim_location,
                t_fact_sales, t_fact_shipments>>

\* shutil.rmtree(WAREHOUSE_DIR) empties one table directory after the other
\* (in the model: in the order of TableOrder); the table it is at
rmtree_table(w) ==
    TableOrder[CHOOSE k \in DOMAIN TableOrder :
                   /\ TableOrder[k] \in DOMAIN w.sidecars
                      \/ \E f \in Range(w.files) : f.table = TableOrder[k]
                   /\ \A j \in 1..(k - 1) :
                          /\ TableOrder[j] \notin DOMAIN w.sidecars
                          /\ \A f \in Range(w.files) : f.table # TableOrder[j]]

\* the exit status of the script
exit_code(src) == IF src.status \in {"missing", "corrupt"} THEN 1 ELSE 0

(***************************************************************************)
(* HiveWarehouse, hive_query_engine.py.  A filter (the partitions argument)*)
(* is the sequence of the dict's (column, value) items in insertion order; *)
(* None and {} are both the empty sequence (the code tests `not            *)
(* partitions`).  A result is the error raised, the rows returned and the  *)
(* data files pd.read_parquet was called on, in the order of the calls.    *)
(***************************************************************************)
Result(error, df, opened) == [error |-> error, df |-> df, opened |-> opened]

readable(sidecars) == {t \in DOMAIN sidecars : sidecars[t] # Unreadable}

\* json.load of every <table>/_METADATA.json the glob finds; a file that is
\* not JSON raises json.JSONDecodeError out of the constructor
load_metastore(sidecars) ==
    IF readable(sidecars) # DOMAIN sidecars
    THEN [error |-> "JSONDecodeError", metastore |-> <<>>]
    ELSE [error |-> "none", metastore |-> sidecars]

\* glob.glob(f"{base_path}/<pattern>/**/*.parquet", recursive=True): the data
\* files of the table under the directory the pattern names; '**' also matches
\* no directory at all, so the files directly in that directory are found too
glob(files, table_name, pattern) ==
    SelectSeq(files, LAMBDA f : /\ f.table = table_name
                                /\ Len(f.dirs) >= Len(pattern)
                                /\ SubSeq(f.dirs, 1, Len(pattern)) = pattern)

\* glob.glob(f"{base_path}/<pattern>/*.parquet"): the data files directly in
\* the directory
glob_flat(files, table_name, pattern) ==
    SelectSeq(files, LAMBDA f : f.table = table_name /\ f.dirs = pattern)

\* the second glob is tried when the first finds nothing
glob_both(files, table_name, pattern) ==
    IF glob(files, table_name, pattern) # <<>> THEN glob(files, table_name, pattern)
    ELSE glob_flat(files, table_name, pattern)

\* pd.read_parquet of each of the files
read_parquet(found) == [i \in DOMAIN found |-> found[i].df]

paths(found) == [i \in DOMAIN found |-> path_of(found[i])]

\* the loop `for col, value in partitions.items(): df[col] = value`
RECURSIVE add_partition_columns(_, _)
add_partition_columns(row, partitions) ==
    IF partitions = <<>> THEN row
    ELSE add_partition_columns(assign(row, Head(partitions)[1], Head(partitions)[2]),
                               Tail(partitions))

\* a path_pattern without the zfill(2) of the *_month values
path_pattern_unpadded(partitions) ==
    os_path_join([i \in DOMAIN partitions |->
                     segment(partitions[i][1], str(partitions[i][2]))])

\* the path read_table looks under: one segment per filter item, in the
\* order of the items
path_pattern(partitions) ==
    os_path_join(
        [i \in DOMAIN partitions |->
            LET col == partitions[i][1]
                value == str(partitions[i][2])
            IN segment(col, IF endswith(col, s_month_suffix) THEN zfill(value, 2) ELSE value)])

\* a read_table without the two `if not ...: return pd.DataFrame()`: pd.concat
\* of an empty list raises
read_table_unguarded(metastore, files, table_name, partitions) ==
    IF table_name \notin DOMAIN metastore
    THEN Result("Table not found", <<>>, <<>>)
    ELSE LET found == glob_both(files, table_name,
                                IF partitions = <<>> THEN <<>> ELSE path_pattern(partitions))
             df == concat(read_parquet(found))
         IN IF found = <<>> THEN Result("No objects to concatenate", <<>>, <<>>)
            ELSE Result("none",
                        [i \in DOMAIN df |-> add_partition_columns(df[i], partitions)],
                        paths(found))

read_table(metastore, files, table_name, partitions) ==
    IF table_name \notin DOMAIN metastore
    THEN Result("Table not found", <<>>, <<>>)
    ELSE IF partitions = <<>>
    THEN LET all_files == glob_both(files, table_name, <<>>)
         IN IF all_files = <<>> THEN Result("none", <<>>, <<>>)
            ELSE Result("none", concat(read_parquet(all_files)), paths(all_files))
    ELSE LET parquet_files == glob_both(files, table_name, path_pattern(partitions))
             df == concat(read_parquet(parquet_files))
         IN IF parquet_files = <<>> THEN Result("none", <<>>, <<>>)
            ELSE Result("none",
                        [i \in DOMAIN df |-> add_partition_columns(df[i], partitions)],
                        paths(parquet_files))

(***************************************************************************)
(* HiveWarehouse.read_table of hive_analytics.py: the partition columns of *)
(* every file are rebuilt from the key=value components of its path.       *)
(***************************************************************************)
\* part.split('=', 1) of a part that contains '='
split_once(part) ==
    LET k == CHOOSE i \in DOMAIN part :
                 part[i] = "=" /\ \A j \in 1..(i - 1) : part[j] # "="
    IN <<SubSeq(part, 1, k - 1), SubSeq(part, k + 1, Len(part))>>

\* a decode that leaves the loop at the first key=value component
decode_first(row, parts) ==
    LET found == SelectSeq(parts, LAMBDA part : "=" \in Range(part))
    IN IF found = <<>> THEN row
       ELSE assign(row, split_once(found[1])[1], PyStr(split_once(found[1])[2]))

\* the loop over Path(file_path).parts: the warehouse root, the table name
\* and data.parquet hold no '=', so only the directories below the table do
RECURSIVE decode(_, _)
decode(row, parts) ==
    IF parts = <<>> THEN row
    ELSE IF "=" \in Range(Head(parts))
         THEN decode(assign(row, split_once(Head(parts))[1],
                            PyStr(split_once(Head(parts))[2])),
                     Tail(parts))
         ELSE decode(row, Tail(parts))

analytics_path_pattern(partitions) ==
    os_path_join([i \in DOMAIN partitions |->
                     segment(partitions[i][1], str(partitions[i][2]))])

analytics_read_table(metastore, files, table_name, partitions) ==
    IF table_name \notin DOMAIN metastore
    THEN Result("Table not found", <<>>, <<>>)
    ELSE LET parquet_files == glob(files, table_name, analytics_path_pattern(partitions))
             dfs == [k \in DOMAIN parquet_files |->
                        [i \in DOMAIN parquet_files[k].df |->
                            decode(parquet_files[k].df[i], parquet_files[k].dirs)]]
         IN IF parquet_files = <<>> THEN Result("none", <<>>, <<>>)
            ELSE Result("none", concat(dfs), paths(parquet_files))

(***************************************************************************)
(* HiveWarehouse.read_table of verify_all.py: the metastore is not looked  *)
(* at, only the five columns of the elif chain add a path segment, and no  *)
(* partition column is attached to the rows.                               *)
(***************************************************************************)
RECURSIVE verify_path_pattern(_)
verify_path_pattern(partitions) ==
    IF partitions = <<>> THEN <<>>
    ELSE LET col == Head(partitions)[1]
             value == Head(partitions)[2]
         IN (IF col \in {s_region, s_category, s_year, s_order_year}
             THEN path_parts(segment(col, str(value)))
             ELSE IF col = s_order_month
             THEN path_parts(segment(col, zfill(str(value), 2)))
             ELSE <<>>)
            \o verify_path_pattern(Tail(partitions))

\* _load_metastore of verify_all.py: try: json.load ... except: pass
verify_load_metastore(sidecars) ==
    [error |-> "none", metastore |-> [t \in readable(sidecars) |-> sidecars[t]]]

verify_read_table(files, table_name, partitions) ==
    LET found == glob_both(files, table_name, verify_path_pattern(partitions))
    IN IF found = <<>> THEN Result("none", <<>>, <<>>)
       ELSE Result("none", concat(read_parquet(found)), paths(found))

(***************************************************************************)
(* show_tables and show_partitions print; the model keeps the lines.       *)
(***************************************************************************)
\* metadata.get('partitions', [])
get_partitions(metadata) ==
    IF "partitions" \in DOMAIN metadata THEN metadata.partitions ELSE <<>>

\* one line per cached table: its record_count and, if it lists partitions,
\* how many
show_tables(metastore) ==
    {[table |-> t,
      record_count |-> metastore[t].record_count,
      partitions |-> Len(get_partitions(metastore[t]))] : t \in DOMAIN metastore}

\* a show_partitions that lists the year and month combinations the cached
\* metadata of a fact table names, whatever is on disk
show_partitions_cached(metastore, files, table_name) ==
    IF table_name \notin DOMAIN metastore THEN {"not found"}
    ELSE LET found == glob(files, table_name, <<>>)
             metadata == metastore[table_name]
         IN IF found = <<>> THEN {"(Not partitioned)"}
            ELSE IF "partition_columns" \in DOMAIN metadata
            THEN {[relative_path |->
                       os_path_join(<<segment(metadata.partition_columns[1], IntStr(x[1])),
                                      segment(metadata.partition_columns[2],
                                              zfill(IntStr(x[2]), 2))>>),
                   record_count |-> metadata.record_count] :
                     x \in Range(metadata.partitions)}
            ELSE {[relative_path |-> found[i].dirs, record_count |-> Len(found[i].df)] :
                     i \in DOMAIN found}

\* one line per directory of the table that holds a data file: its path
\* relative to the table and the rows of its files
show_partitions(metastore, files, table_name) ==
    IF table_name \notin DOMAIN metastore THEN {"not found"}
    ELSE LET found == glob(files, table_name, <<>>)
         IN IF found = <<>> THEN {"(Not partitioned)"}
            ELSE {[relative_path |-> found[i].dirs, record_count |-> Len(found[i].df)] :
                     i \in DOMAIN found}

(***************************************************************************)
(* query: the text is taken as its whitespace-separated parts, which is    *)
(* all that query() reads of it (parts = sql_like_filter.split()).         *)
(***************************************************************************)
\* ' '.join(parts)
RECURSIVE join(_)
join(parts) ==
    IF parts = <<>> THEN <<>>
    ELSE IF Len(parts) = 1 THEN parts[1]
    ELSE parts[1] \o <<" ">> \o join(Tail(parts))

starts_at(text, i, sep) ==
    /\ i + Len(sep) - 1 <= Len(text)
    /\ SubSeq(text, i, i + Len(sep) - 1) = sep

\* text.split(sep): the pieces between the occurrences of sep, left to right
RECURSIVE split(_, _)
split(text, sep) ==
    IF \E i \in DOMAIN text : starts_at(text, i, sep)
    THEN LET k == CHOOSE i \in DOMAIN text :
                      starts_at(text, i, sep) /\ \A j \in 1..(i - 1) : ~starts_at(text, j, sep)
         IN <<SubSeq(text, 1, k - 1)>> \o split(SubSeq(text, k + Len(sep), Len(text)), sep)
    ELSE <<text>>

\* text.strip(ch) for one character; strip() is strip(" ")
RECURSIVE strip(_, _)
strip(text, ch) ==
    IF text # <<>> /\ Head(text) = ch THEN strip(Tail(text), ch)
    ELSE IF text # <<>> /\ text[Len(text)] = ch THEN strip(SubSeq(text, 1, Len(text) - 1), ch)
    ELSE text

RECURSIVE rstrip(_, _)
rstrip(text, ch) ==
    IF text # <<>> /\ text[Len(text)] = ch THEN rstrip(SubSeq(text, 1, Len(text) - 1), ch)
    ELSE text

Digits == {Digit(d) : d \in 0..9}
DigitValue(c) == CHOOSE d \in 0..9 : Digit(d) = c

is_digits(text) == text # <<>> /\ \A i \in DOMAIN text : text[i] \in Digits

RECURSIVE digits_value(_)
digits_value(text) ==
    IF text = <<>> THEN 0
    ELSE 10 * digits_value(SubSeq(text, 1, Len(text) - 1)) + DigitValue(text[Len(text)])

\* int(text) succeeds: an unsigned decimal literal, blanks around it allowed
int_parses(text) == is_digits(strip(text, " "))

\* float(text) succeeds: digits, a point, digits, one side possibly empty
float_parses(text) ==
    LET t == strip(text, " ")
        pieces == split(t, <<".">>)
    IN \/ is_digits(t)
       \/ /\ Len(pieces) = 2
          /\ pieces[1] = <<>> \/ is_digits(pieces[1])
          /\ pieces[2] = <<>> \/ is_digits(pieces[2])
          /\ pieces[1] # <<>> \/ pieces[2] # <<>>

float_value(text) ==
    LET t == strip(text, " ")
        pieces == split(t, <<".">>)
    IN IF Len(pieces) = 1 THEN PyFloat(digits_value(t), <<>>)
       ELSE PyFloat(digits_value(pieces[1]), rstrip(pieces[2], "0"))

\* a chain that tries float before int
coerce_float_first(val) ==
    IF float_parses(val) THEN float_value(val)
    ELSE IF int_parses(val) THEN PyInt(digits_value(strip(val, " ")))
    ELSE PyStr(val)

\* the try/except chain of query(): int, else float, else the string itself
\* (the literals of the model carry no sign, exponent or underscore)
coerce(val) ==
    IF int_parses(val) THEN PyInt(digits_value(strip(val, " ")))
    ELSE IF float_parses(val) THEN float_value(val)
    ELSE PyStr(val)

\* val.strip().strip("'").strip('"')
trim(val) == strip(strip(strip(val, " "), "'"), "\"")

\* the filter value of the text right of the '=' of a condition
literal_value(val) == coerce(trim(val))

\* parts.index(word)
index(parts, word) == CHOOSE i \in DOMAIN parts :
                          parts[i] = word /\ \A j \in 1..(i - 1) : parts[j] # word

w_FROM == <<"F", "R", "O", "M">>
w_WHERE == <<"W", "H", "E", "R", "E">>
w_AND == <<"A", "N", "D">>
w_SELECT == <<"S", "E", "L", "E", "C", "T">>
w_OR == <<"O", "R">>

\* the loop over the conditions: the filters so far, or the error of the
\* unpacking `col, val = cond.split('=')`
RECURSIVE parse_conditions(_, _)
parse_conditions(conditions, filters) ==
    IF conditions = <<>> THEN [error |-> "none", filters |-> filters]
    ELSE LET cond == Head(conditions)
             pieces == split(cond, <<"=">>)
         IN IF "=" \notin Range(cond) THEN parse_conditions(Tail(conditions), filters)
            ELSE IF Len(pieces) # 2
            THEN [error |-> "too many values to unpack", filters |-> filters]
            ELSE parse_conditions(
                     Tail(conditions),
                     assign(filters, strip(pieces[1], " "), literal_value(pieces[2])))

\* a query that takes the last part for the table when there is no FROM
query_lenient(metastore, files, parts) ==
    IF parts = <<>> THEN Result("IndexError", <<>>, <<>>)
    ELSE read_table(metastore, files, parts[Len(parts)], <<>>)

query(metastore, files, parts) ==
    IF w_FROM \notin Range(parts) THEN Result("Query must contain FROM", <<>>, <<>>)
    ELSE IF index(parts, w_FROM) = Len(parts) THEN Result("IndexError", <<>>, <<>>)
    ELSE LET table_name == parts[index(parts, w_FROM) + 1]
             parsed == IF w_WHERE \in Range(parts)
                       THEN parse_conditions(
                                split(join(SubSeq(parts, index(parts, w_WHERE) + 1, Len(parts))),
                                      w_AND),
                                <<>>)
                       ELSE [error |-> "none", filters |-> <<>>]
         IN IF parsed.error # "none" THEN Result(parsed.error, <<>>, <<>>)
            ELSE read_table(metastore, files, table_name, parsed.filters)

(***************************************************************************)
(* The state: the source tables, the warehouse tree on disk, one           *)
(* HiveWarehouse instance with its cached metastore, and the last call     *)
(* made on it with what it returned.                                       *)
(***************************************************************************)
VARIABLES source, files, sidecars, opened, metastore, last, builder, history

vars == <<source, files, sidecars, opened, metastore, last, builder, history>>

\* the filter items tried per table: the table's partition columns with
\* values that were written, values that were not, and the same value in
\* another type or spelling
FilterItems(table_name) ==
    IF table_name = t_dim_customer
    THEN {<<s_region, PyStr(East)>>, <<s_region, PyStr(West)>>, <<s_region, PyStr(South)>>}
    ELSE IF table_name = t_dim_product THEN {<<s_category, PyStr(Furniture)>>}
    ELSE IF table_name = t_dim_date THEN {<<s_year, PyInt(2016)>>}
    ELSE IF table_name = t_dim_location THEN {<<s_region, PyStr(East)>>}
    ELSE IF table_name = t_fact_sales
    THEN {<<s_order_year, PyInt(2016)>>, <<s_order_year, PyInt(2017)>>,
          <<s_order_month, PyInt(1)>>, <<s_order_month, PyInt(11)>>,
          <<s_order_month, PyStr(<<"0", "1">>)>>}
    ELSE IF table_name = t_fact_shipments
    THEN {<<s_ship_year, PyInt(2016)>>, <<s_ship_month, PyInt(1)>>}
    ELSE {<<s_region, PyStr(East)>>}

\* the filters: no item, one item, or two items on different columns in
\* either order
Filters(table_name) ==
    {<<>>} \cup {<<a>> : a \in FilterItems(table_name)}
    \cup {<<x[1], x[2]>> :
            x \in {y \in FilterItems(table_name) \X FilterItems(table_name) :
                      y[1][1] # y[2][1]}}

\* the names read_table is called with: the six tables and one that no
\* build creates
TableNames == Tables \cup {t_dim_store}

eq(col, literal) == col \o <<"=">> \o literal

select_from(table_name, where) ==
    <<w_SELECT, <<"*">>, w_FROM, table_name>>
    \o (IF where = <<>> THEN <<>> ELSE <<w_WHERE>> \o where)

\* a condition col=literal of a WHERE clause: the literal as the words it
\* is written in, the value it denotes, and whether blanks surround the '='
Cond(col, words, value, spaced) ==
    [col |-> col, words |-> words, value |-> value, spaced |-> spaced]

cond_parts(c) ==
    IF c.spaced THEN <<c.col, <<"=">>>> \o c.words
    ELSE <<eq(c.col, Head(c.words))>> \o Tail(c.words)

RECURSIVE where_parts(_)
where_parts(conds) ==
    IF conds = <<>> THEN <<>>
    ELSE IF Len(conds) = 1 THEN cond_parts(conds[1])
    ELSE cond_parts(conds[1]) \o <<w_AND>> \o where_parts(Tail(conds))

Quoted(text) == <<"'">> \o text \o <<"'">>

\* texts of the grammar SELECT * FROM t [WHERE c=v [AND c=v ...]], by their
\* table and conditions
GrammarQueries ==
    {[table_name |-> t_fact_sales, conds |-> <<>>],
     [table_name |-> t_fact_sales,
      conds |-> <<Cond(s_order_year, <<IntStr(2017)>>, PyInt(2017), FALSE),
                  Cond(s_order_month, <<IntStr(11)>>, PyInt(11), FALSE)>>],
     [table_name |-> t_fact_sales,
      conds |-> <<Cond(s_order_year, <<IntStr(2017)>>, PyInt(2017), TRUE)>>],
     [table_name |-> t_fact_sales,
      conds |-> <<Cond(s_order_month, <<<<"1", ".", "0">>>>, PyFloat(1, <<>>), FALSE)>>],
     [table_name |-> t_dim_customer,
      conds |-> <<Cond(s_region, <<Quoted(East)>>, PyStr(East), FALSE)>>],
     [table_name |-> t_dim_product,
      conds |-> <<Cond(s_category, <<Furniture>>, PyStr(Furniture), FALSE)>>],
     [table_name |-> t_dim_customer,
      conds |-> <<Cond(s_region, <<<<"'">> \o East, w_AND, West \o <<"'">>>>,
                       PyStr(East \o <<" ">> \o w_AND \o <<" ">> \o West), FALSE)>>],
     [table_name |-> t_dim_customer,
      conds |-> <<Cond(s_region, <<Quoted(AB)>>, PyStr(AB), FALSE)>>]}

text_of(q) == select_from(q.table_name, where_parts(q.conds))

\* the texts query() is called with, as their parts
QueryTexts ==
    {text_of(q) : q \in GrammarQueries} \cup
    {select_from(t_fact_sales, <<>>),
     select_from(t_fact_sales,
                 <<eq(s_order_year, IntStr(2017)), w_AND, eq(s_order_month, IntStr(11))>>),
     select_from(t_fact_sales, <<s_order_year, <<"=">>, IntStr(2017)>>),
     select_from(t_fact_sales, <<eq(s_order_month, <<"1", ".", "0">>)>>),
     select_from(t_dim_customer, <<eq(s_region, <<"'">> \o East \o <<"'">>)>>),
     select_from(t_fact_sales, <<s_order_year \o <<">">> \o IntStr(2016)>>),
     select_from(t_fact_sales,
                 <<eq(s_order_year, IntStr(2017)), w_OR, eq(s_order_month, IntStr(11))>>),
     select_from(t_dim_store, <<>>),
     <<w_SELECT, <<"*">>, t_fact_sales>>,
     <<w_SELECT, <<"*">>, <<"f", "r", "o", "m">>, t_fact_sales>>,
     <<>>,
     <<w_SELECT, <<"*">>, w_FROM>>}

\* data/history/ before any SCD script has run: no history file, and the
\* clock that datetime.now() reads
Absent == [exists |-> FALSE, df |-> <<>>]
Parquet(df) == [exists |-> TRUE, df |-> df]
NoHistory == [dim_customer_scd2 |-> Absent, dim_product_scd2 |-> Absent, now |-> 1]

\* the builder is not running
Idle == [pc |-> "idle", done |-> 0]

Init ==
    /\ source \in Sources
    /\ files = <<>>
    /\ sidecars = <<>>
    /\ opened = FALSE
    /\ metastore = <<>>
    /\ last = [op |-> "none"]
    /\ builder = Idle
    /\ history = NoHistory

\* python src/04_storage/hive_style_warehouse.py, run to its end or its exit(1)
Build ==
    /\ builder = Idle
    /\ files' = hive_style_warehouse([files |-> files, sidecars |-> sidecars], source).files
    /\ sidecars' = hive_style_warehouse([files |-> files, sidecars |-> sidecars], source).sidecars
    /\ last' = [op |-> "build", exit_code |-> exit_code(source)]
    /\ UNCHANGED <<history, builder, source, opened, metastore>>

\* The script step by step, for what a reader sees while it runs.  It starts
\* with the test for the source files: exit(1), or on to the rmtree.
StartBuild ==
    /\ builder = Idle
    /\ builder' = IF source.status = "missing" THEN Idle ELSE [pc |-> "rmtree", done |-> 0]
    /\ last' = IF source.status = "missing" THEN [op |-> "build", exit_code |-> 1]
               ELSE [op |-> "build_step"]
    /\ UNCHANGED <<history, source, files, sidecars, opened, metastore>>

\* rmtree unlinks a data file of the table directory it is at; the order of
\* the entries of a directory is the file system's
RmtreeFile(file) ==
    /\ builder.pc = "rmtree"
    /\ file \in Range(files)
    /\ file.table = rmtree_table([files |-> files, sidecars |-> sidecars])
    /\ files' = SelectSeq(files, LAMBDA f : f # file)
    /\ last' = [op |-> "build_step"]
    /\ UNCHANGED <<history, builder, source, sidecars, opened, metastore>>

\* rmtree unlinks the sidecar of the table directory it is at
RmtreeSidecar ==
    /\ builder.pc = "rmtree"
    /\ sidecars # <<>> \/ files # <<>>
    /\ rmtree_table([files |-> files, sidecars |-> sidecars]) \in DOMAIN sidecars
    /\ sidecars' = [t \in DOMAIN sidecars
                       \ {rmtree_table([files |-> files, sidecars |-> sidecars])} |->
                       sidecars[t]]
    /\ last' = [op |-> "build_step"]
    /\ UNCHANGED <<history, builder, source, files, opened, metastore>>

\* the tree is gone: makedirs, and the sources are loaded, or exit(1)
Load ==
    /\ builder.pc = "rmtree"
    /\ files = <<>> /\ sidecars = <<>>
    /\ builder' = IF source.status = "corrupt" THEN Idle ELSE [pc |-> "write", done |-> 0]
    /\ last' = IF source.status = "corrupt" THEN [op |-> "build", exit_code |-> 1]
               ELSE [op |-> "build_step"]
    /\ UNCHANGED <<history, source, files, sidecars, opened, metastore>>

\* the next write of the six steps
WriteStep ==
    /\ builder.pc = "write"
    /\ builder.done < Len(writes(source))
    /\ files' = write([files |-> files, sidecars |-> sidecars],
                      writes(source)[builder.done + 1]).files
    /\ sidecars' = write([files |-> files, sidecars |-> sidecars],
                         writes(source)[builder.done + 1]).sidecars
    /\ builder' = [pc |-> "write", done |-> builder.done + 1]
    /\ last' = [op |-> "build_step"]
    /\ UNCHANGED <<history, source, opened, metastore>>

\* the script ends
Finish ==
    /\ builder.pc = "write"
    /\ builder.done = Len(writes(source))
    /\ builder' = Idle
    /\ last' = [op |-> "build", exit_code |-> 0]
    /\ UNCHANGED <<history, source, files, sidecars, opened, metastore>>

\* hive = HiveWarehouse('retail_warehouse/') of hive_query_engine.py and of
\* hive_analytics.py: when the constructor raises, there is no new instance
Open ==
    /\ opened' = (opened \/ load_metastore(sidecars).error = "none")
    /\ metastore' = IF load_metastore(sidecars).error = "none"
                    THEN load_metastore(sidecars).metastore ELSE metastore
    /\ last' = [op |-> "open", error |-> load_metastore(sidecars).error]
    /\ UNCHANGED <<history, builder, source, files, sidecars>>

\* hive = HiveWarehouse('retail_warehouse/') of verify_all.py
VerifyOpen ==
    /\ opened' = TRUE
    /\ metastore' = verify_load_metastore(sidecars).metastore
    /\ last' = [op |-> "open", error |-> verify_load_metastore(sidecars).error]
    /\ UNCHANGED <<history, builder, source, files, sidecars>>

\* the sidecar of a table is left with text that is not JSON (a write that
\* was cut short, an edit by hand)
DamageSidecar(table_name) ==
    /\ table_name \in readable(sidecars)
    /\ sidecars' = [sidecars EXCEPT ![table_name] = Unreadable]
    /\ last' = [op |-> "damage", table_name |-> table_name]
    /\ UNCHANGED <<history, builder, source, files, opened, metastore>>

\* the sidecar of a table is removed
DeleteSidecar(table_name) ==
    /\ table_name \in DOMAIN sidecars
    /\ sidecars' = [t \in DOMAIN sidecars \ {table_name} |-> sidecars[t]]
    /\ last' = [op |-> "delete_sidecar", table_name |-> table_name]
    /\ UNCHANGED <<history, builder, source, files, opened, metastore>>

\* a read_table that forgets the table it has read
ReadTable_evicting(table_name, partitions) ==
    /\ opened
    /\ last' = [op |-> "read_table", table_name |-> table_name, partitions |-> partitions,
                result |-> read_table(metastore, files, table_name, partitions)]
    /\ metastore' = [t \in DOMAIN metastore \ {table_name} |-> metastore[t]]
    /\ UNCHANGED <<history, builder, source, files, sidecars, opened>>

\* a read_table that sees the tree the running build will leave, not the
\* tree as it is on disk
ReadTable_snapshot(table_name, partitions) ==
    /\ opened
    /\ last' = [op |-> "read_table", table_name |-> table_name, partitions |-> partitions,
                result |-> read_table(metastore,
                                      hive_style_warehouse(EmptyWarehouse, source).files,
                                      table_name, partitions)]
    /\ UNCHANGED <<history, builder, source, files, sidecars, opened, metastore>>

\* a read_table that loads the metastore again before it looks the table up
ReadTable_reloading(table_name, partitions) ==
    /\ opened
    /\ metastore' = load_metastore(sidecars).metastore
    /\ last' = [op |-> "read_table", table_name |-> table_name, partitions |-> partitions,
                result |-> read_table(load_metastore(sidecars).metastore, files,
                                      table_name, partitions)]
    /\ UNCHANGED <<history, builder, source, files, sidecars, opened>>

\* hive.read_table(table_name, partitions)
ReadTable(table_name, partitions) ==
    /\ opened
    /\ last' = [op |-> "read_table", table_name |-> table_name, partitions |-> partitions,
                result |-> read_table(metastore, files, table_name, partitions)]
    /\ UNCHANGED <<history, builder, source, files, sidecars, opened, metastore>>

\* read_table of the HiveWarehouse of hive_analytics.py
AnalyticsReadTable(table_name, partitions) ==
    /\ opened
    /\ last' = [op |-> "analytics_read_table", table_name |-> table_name,
                partitions |-> partitions,
                result |-> analytics_read_table(metastore, files, table_name, partitions)]
    /\ UNCHANGED <<history, builder, source, files, sidecars, opened, metastore>>

\* read_table of the HiveWarehouse of verify_all.py
VerifyReadTable(table_name, partitions) ==
    /\ opened
    /\ last' = [op |-> "verify_read_table", table_name |-> table_name,
                partitions |-> partitions,
                result |-> verify_read_table(files, table_name, partitions)]
    /\ UNCHANGED <<history, builder, source, files, sidecars, opened, metastore>>

\* hive.query(text)
Query(parts) ==
    /\ opened
    /\ last' = [op |-> "query", parts |-> parts, result |-> query(metastore, files, parts)]
    /\ UNCHANGED <<history, builder, source, files, sidecars, opened, metastore>>

\* hive.show_tables()
ShowTables ==
    /\ opened
    /\ last' = [op |-> "show_tables", lines |-> show_tables(metastore)]
    /\ UNCHANGED <<history, builder, source, files, sidecars, opened, metastore>>

\* hive.show_partitions(table_name)
ShowPartitions(table_name) ==
    /\ opened
    /\ last' = [op |-> "show_partitions", table_name |-> table_name,
                lines |-> show_partitions(metastore, files, table_name)]
    /\ UNCHANGED <<history, builder, source, files, sidecars, opened, metastore>>

\* a partition directory of fact_sales (a year, or a month of a year) is
\* removed by hand; the sidecar is left as it is
DeletePartition(dir) ==
    /\ glob(files, t_fact_sales, dir) # <<>>
    /\ files' = SelectSeq(files, LAMBDA f : f \notin Range(glob(files, t_fact_sales, dir)))
    /\ last' = [op |-> "delete", dir |-> dir]
    /\ UNCHANGED <<history, builder, source, sidecars, opened, metastore>>

PartitionDirs ==
    {SubSeq(f.dirs, 1, n) : f \in Range(glob(files, t_fact_sales, <<>>)), n \in 1..2}

\* the filters of the calls the scripts of the repository make
\* (hive_query_engine.py:224-262, hive_analytics.py:121, 227)
DemoFilters(table_name) ==
    IF table_name = t_dim_customer THEN {<<>>, << <<s_region, PyStr(East)>> >>}
    ELSE IF table_name = t_fact_sales
    THEN {<<>>, << <<s_order_year, PyInt(2017)>> >>,
          << <<s_order_year, PyInt(2017)>>, <<s_order_month, PyInt(11)>> >>}
    ELSE {<<>>}

Calls == {<<t, F>> : t \in TableNames, F \in UNION {Filters(n) : n \in TableNames}}
AllCalls == {c \in Calls : c[2] \in Filters(c[1])}
DemoCalls == {c \in Calls : c[2] \in DemoFilters(c[1])}

\* the builder, and read_table under every filter
Next ==
    \/ Build
    \/ Open
    \/ \E call \in AllCalls : ReadTable(call[1], call[2])
    \/ \E dir \in PartitionDirs : DeletePartition(dir)

Spec == Init /\ [][Next]_vars

\* the builder, and the reader of hive_analytics.py
NextAnalytics ==
    \/ Build
    \/ Open
    \/ \E call \in AllCalls : AnalyticsReadTable(call[1], call[2])
    \/ \E dir \in PartitionDirs : DeletePartition(dir)

SpecAnalytics == Init /\ [][NextAnalytics]_vars

\* the builder, and the reader of verify_all.py
NextVerify ==
    \/ Build
    \/ VerifyOpen
    \/ \E call \in AllCalls : VerifyReadTable(call[1], call[2])
    \/ \E dir \in PartitionDirs : DeletePartition(dir)

SpecVerify == Init /\ [][NextVerify]_vars

\* one set of source tables, present and loading, missing, or not loading
RebuildSources == {Source(st, DefaultCust, DefaultSales) : st \in {"ok", "missing", "corrupt"}}

InitRebuild ==
    /\ source \in RebuildSources
    /\ files = <<>>
    /\ sidecars = <<>>
    /\ opened = FALSE
    /\ metastore = <<>>
    /\ last = [op |-> "none"]
    /\ builder = Idle
    /\ history = NoHistory

\* the builder step by step, and instances opened and tables read while it
\* runs
NextRebuild ==
    \/ StartBuild
    \/ \E file \in Range(files) : RmtreeFile(file)
    \/ RmtreeSidecar
    \/ Load
    \/ WriteStep
    \/ Finish
    \/ Open
    \/ \E table_name \in Tables : ReadTable(table_name, <<>>)

SpecRebuild == InitRebuild /\ [][NextRebuild]_vars

\* the source tables the pipeline may leave in data/warehouse/ from one run
\* of the builder to the next
ChangingSources ==
    {Source("ok", DefaultCust, DefaultSales), Source("ok", <<2>>, <<1, 2>>),
     Source("ok", <<>>, <<>>), Source("missing", DefaultCust, DefaultSales),
     Source("corrupt", DefaultCust, DefaultSales)}

InitSources ==
    /\ source \in ChangingSources
    /\ files = <<>>
    /\ sidecars = <<>>
    /\ opened = FALSE
    /\ metastore = <<>>
    /\ last = [op |-> "none"]
    /\ builder = Idle
    /\ history = NoHistory

\* build_dimensions.py and build_facts.py write the source tables anew
Regenerate ==
    /\ source' \in ChangingSources \ {source}
    /\ last' = [op |-> "regenerate"]
    /\ UNCHANGED <<history, builder, files, sidecars, opened, metastore>>

\* builds from changing sources, and an instance that is read across them
NextSources ==
    \/ Build
    \/ Regenerate
    \/ Open
    \/ \E table_name \in Tables : ReadTable(table_name, <<>>)
    \/ ShowTables

SpecSources == InitSources /\ [][NextSources]_vars

\* the longest right-hand text tried
MaxLiteral == 3

LiteralChars == {"1", ".", "'", "\"", " ", "W"}

\* the right-hand texts of a condition: up to MaxLiteral characters
Literals == UNION {[1..n -> LiteralChars] : n \in 1..MaxLiteral}

InitCoerce ==
    /\ source = Source("ok", DefaultCust, DefaultSales)
    /\ files = <<>>
    /\ sidecars = <<>>
    /\ opened = FALSE
    /\ metastore = <<>>
    /\ last = [op |-> "none"]
    /\ builder = Idle
    /\ history = NoHistory

\* one turn of the loop over the conditions: the value of a right-hand text
Coerce(val) ==
    /\ last' = [op |-> "coerce", val |-> val, value |-> literal_value(val)]
    /\ UNCHANGED <<history, builder, source, files, sidecars, opened, metastore>>

NextCoerce == \E val \in Literals : Coerce(val)

SpecCoerce == InitCoerce /\ [][NextCoerce]_vars

\* the tables whose sidecar is damaged or removed
DamagedTables == {t_dim_date, t_fact_sales}

\* the builder, sidecars that are damaged or removed, and the constructor
NextOpen ==
    \/ Build
    \/ Open
    \/ \E table_name \in DamagedTables : DamageSidecar(table_name)
    \/ \E table_name \in DamagedTables : DeleteSidecar(table_name)
    \/ ShowTables

SpecOpen == Init /\ [][NextOpen]_vars

\* the same with the constructor of verify_all.py
NextVerifyOpen ==
    \/ Build
    \/ VerifyOpen
    \/ \E table_name \in DamagedTables : DamageSidecar(table_name)
    \/ \E table_name \in DamagedTables : DeleteSidecar(table_name)
    \/ \E table_name \in TableNames : VerifyReadTable(table_name, <<>>)

SpecVerifyOpen == Init /\ [][NextVerifyOpen]_vars

\* the builder, and the whole interface of the HiveWarehouse of
\* hive_query_engine.py
NextFacade ==
    \/ Build
    \/ Open
    \/ \E call \in DemoCalls : ReadTable(call[1], call[2])
    \/ \E parts \in QueryTexts : Query(parts)
    \/ ShowTables
    \/ \E table_name \in TableNames : ShowPartitions(table_name)
    \/ \E dir \in PartitionDirs : DeletePartition(dir)

SpecFacade == Init /\ [][NextFacade]_vars

(***************************************************************************)
(* src/03_transformation/scd_customer.py: the Type 2 history of            *)
(* dim_customer in data/history/dim_customer_scd2.parquet.  A snapshot is  *)
(* the dim_customer table of build_dimensions.py: one row per Customer_ID, *)
(* customer_sk counting from 1.  Of the three compared attributes Region   *)
(* varies; a date is the value of the clock when the script ran, and NaT   *)
(* is the empty sequence.                                                  *)
(***************************************************************************)
\* the runs of the SCD scripts the model follows
MaxRuns == 3

NaT == <<>>

CustomerIds == <<"CG-1", "DV-2">>

ScdRegions == {PyStr(East), PyStr(West), NaN}

CustomerNames == <<PyStr(<<"C", "G">>), PyStr(<<"D", "V">>)>>

Consumer == PyStr(<<"C", "o", "n", "s", "u", "m", "e", "r">>)

customer_row(k, sk, region) ==
    [customer_sk |-> sk, Customer_ID |-> CustomerIds[k], Customer_Name |-> CustomerNames[k],
     Segment |-> Consumer, Region |-> region]

\* the dim_customer tables: one or both customers, each in some region
CustomerSnapshots ==
    {<<customer_row(k, 1, r)>> : k \in DOMAIN CustomerIds, r \in ScdRegions}
    \cup {<<customer_row(1, 1, r[1]), customer_row(2, 2, r[2])>> :
             r \in ScdRegions \X ScdRegions}

\* a != b of two cell values: of two nulls it is False when the cells hold
\* None and True when they hold NaN, which the pandas and pyarrow versions
\* installed decide (nulls_differ)
ne(a, b, nulls_differ) == IF a = NaN /\ b = NaN THEN nulls_differ ELSE a # b

\* series.max()
Max(values) == CHOOSE x \in values : \A y \in values : y <= x

\* the row with the four history columns set
versioned(row, start, version) ==
    [customer_sk |-> row.customer_sk, Customer_ID |-> row.Customer_ID,
     Customer_Name |-> row.Customer_Name, Segment |-> row.Segment, Region |-> row.Region,
     Start_Date |-> <<start>>, End_Date |-> NaT, Is_Current |-> 1, Version |-> version]

\* a new record whose customer_sk is one more than the keys of the frame
next_version(row, scd2, start, version) ==
    versioned([row EXCEPT !.customer_sk =
                   Max({scd2[i].customer_sk : i \in DOMAIN scd2}) + 1],
              start, version)

\* dim_customer_scd2.loc[customer_sk == sk, ['End_Date', 'Is_Current']] = [now, 0]
expire(scd2, sk, now) ==
    [i \in DOMAIN scd2 |->
        IF scd2[i].customer_sk = sk
        THEN [scd2[i] EXCEPT !.End_Date = <<now>>, !.Is_Current = 0]
        ELSE scd2[i]]

\* the loop over the rows of dim_customer: active_customers was taken before
\* the loop, the frame is changed in place by an expiry, and the new records
\* are appended to it only after the loop
RECURSIVE detect_changes(_, _, _, _, _, _)
detect_changes(rows, active_customers, scd2, new_records, now, nulls_differ) ==
    IF rows = <<>> THEN scd2 \o new_records
    ELSE LET customer == Head(rows)
             active == SelectSeq(active_customers,
                                 LAMBDA a : a.Customer_ID = customer.Customer_ID)
         IN IF active = <<>>
            THEN detect_changes(Tail(rows), active_customers, scd2,
                                Append(new_records, next_version(customer, scd2, now, 1)),
                                now, nulls_differ)
            ELSE IF \/ ne(customer.Customer_Name, active[1].Customer_Name, nulls_differ)
                    \/ ne(customer.Segment, active[1].Segment, nulls_differ)
                    \/ ne(customer.Region, active[1].Region, nulls_differ)
            THEN detect_changes(Tail(rows), active_customers,
                                expire(scd2, active[1].customer_sk, now),
                                Append(new_records,
                                       next_version(customer, scd2, now,
                                                    active[1].Version + 1)),
                                now, nulls_differ)
            ELSE detect_changes(Tail(rows), active_customers, scd2, new_records,
                                now, nulls_differ)

\* the script: the first load, or the change detection on the history
scd_customer(scd_history, dim_customer, now, nulls_differ) ==
    IF ~scd_history.exists
    THEN [i \in DOMAIN dim_customer |-> versioned(dim_customer[i], now, 1)]
    ELSE detect_changes(dim_customer,
                        SelectSeq(scd_history.df, LAMBDA h : h.Is_Current = 1),
                        scd_history.df, <<>>, now, nulls_differ)

\* a run of scd_customer.py on the dim_customer table it finds
RunCustomerScd(dim_customer, nulls_differ) ==
    /\ history.now <= MaxRuns
    /\ history' = [history EXCEPT
                       !.dim_customer_scd2 =
                           Parquet(scd_customer(history.dim_customer_scd2, dim_customer,
                                                history.now, nulls_differ)),
                       !.now = history.now + 1]
    /\ last' = [op |-> "scd_customer", dim_customer |-> dim_customer,
                previous |-> history.dim_customer_scd2]
    /\ UNCHANGED <<builder, source, files, sidecars, opened, metastore>>

NextCustomerScd ==
    \E dim_customer \in CustomerSnapshots, nulls_differ \in BOOLEAN :
        RunCustomerScd(dim_customer, nulls_differ)

SpecCustomerScd == InitCoerce /\ [][NextCustomerScd]_vars

(***************************************************************************)
(* src/03_transformation/scd_product.py: implement_product_scd2 and the    *)
(* script around it, which keeps the history in                            *)
(* data/history/dim_product_scd2.parquet.  Of the three compared           *)
(* attributes Category varies.                                             *)
(***************************************************************************)
ProductIds == <<"FUR-1", "TEC-2">>

ProductNames == <<PyStr(<<"D", "e", "s", "k">>), PyStr(<<"P", "h", "o", "n", "e">>)>>

Chairs == PyStr(<<"C", "h", "a", "i", "r", "s">>)

ScdCategories == {PyStr(Furniture), PyStr(Technology), NaN}

product_row(k, sk, category) ==
    [product_sk |-> sk, Product_ID |-> ProductIds[k], Product_Name |-> ProductNames[k],
     Category |-> category, Sub_Category |-> Chairs]

\* the dim_product tables: one or both products, each in some category
ProductSnapshots ==
    {<<product_row(k, 1, c)>> : k \in DOMAIN ProductIds, c \in ScdCategories}
    \cup {<<product_row(1, 1, c[1]), product_row(2, 2, c[2])>> :
             c \in ScdCategories \X ScdCategories}

\* the row with the four history columns set
product_version(row, start, version) ==
    [product_sk |-> row.product_sk, Product_ID |-> row.Product_ID,
     Product_Name |-> row.Product_Name, Category |-> row.Category,
     Sub_Category |-> row.Sub_Category,
     Start_Date |-> <<start>>, End_Date |-> NaT, Is_Current |-> 1, Version |-> version]

\* current_attrs != active_attrs, the comparison of the two dicts
attrs_differ(product, active_record, nulls_differ) ==
    \/ ne(product.Product_Name, active_record.Product_Name, nulls_differ)
    \/ ne(product.Category, active_record.Category, nulls_differ)
    \/ ne(product.Sub_Category, active_record.Sub_Category, nulls_differ)

\* the order of sort_values(['Product_ID', 'Start_Date'])
sorts_before(a, b) ==
    LET rank(r) == CHOOSE k \in DOMAIN ProductIds : ProductIds[k] = r.Product_ID
    IN \/ rank(a) < rank(b)
       \/ rank(a) = rank(b) /\ a.Start_Date[1] < b.Start_Date[1]

RECURSIVE sort_records(_)
sort_records(df) ==
    IF df = <<>> THEN <<>>
    ELSE LET k == CHOOSE i \in DOMAIN df :
                      /\ \A j \in DOMAIN df : ~sorts_before(df[j], df[i])
                      /\ \A j \in 1..(i - 1) : sorts_before(df[i], df[j])
         IN <<df[k]>> \o sort_records([i \in 1..(Len(df) - 1) |->
                                          IF i < k THEN df[i] ELSE df[i + 1]])

\* the loop over the rows of the snapshot: the records to keep or expire and
\* the records to add
RECURSIVE product_changes(_, _, _, _, _, _)
product_changes(rows, active_records, updated_records, new_records, effective_date, nulls_differ) ==
    IF rows = <<>> THEN updated_records \o new_records
    ELSE LET product == Head(rows)
             active_record == SelectSeq(active_records,
                                        LAMBDA a : a.Product_ID = product.Product_ID)
         IN IF active_record = <<>>
            THEN product_changes(Tail(rows), active_records, updated_records,
                                 Append(new_records,
                                        product_version(product, effective_date, 1)),
                                 effective_date, nulls_differ)
            ELSE IF attrs_differ(product, active_record[1], nulls_differ)
            THEN product_changes(Tail(rows), active_records,
                                 Append(updated_records,
                                        [active_record[1] EXCEPT
                                             !.End_Date = <<effective_date>>,
                                             !.Is_Current = 0]),
                                 Append(new_records,
                                        product_version(product, effective_date,
                                                        active_record[1].Version + 1)),
                                 effective_date, nulls_differ)
            ELSE product_changes(Tail(rows), active_records,
                                 Append(updated_records, active_record[1]), new_records,
                                 effective_date, nulls_differ)

\* previous_history is None when the file does not exist
implement_product_scd2(current_snapshot, previous_history, effective_date, nulls_differ) ==
    IF ~previous_history.exists \/ previous_history.df = <<>>
    THEN [i \in DOMAIN current_snapshot |->
             product_version(current_snapshot[i], effective_date, 1)]
    ELSE sort_records(
             SelectSeq(previous_history.df, LAMBDA h : h.Is_Current = 0)
             \o product_changes(current_snapshot,
                                SelectSeq(previous_history.df, LAMBDA h : h.Is_Current = 1),
                                <<>>, <<>>, effective_date, nulls_differ))

\* a run of scd_product.py on the dim_product table it finds
RunProductScd(current_products, nulls_differ) ==
    /\ history.now <= MaxRuns
    /\ history' = [history EXCEPT
                       !.dim_product_scd2 =
                           Parquet(implement_product_scd2(current_products,
                                                          history.dim_product_scd2,
                                                          history.now, nulls_differ)),
                       !.now = history.now + 1]
    /\ last' = [op |-> "scd_product", current_snapshot |-> current_products,
                previous_history |-> history.dim_product_scd2]
    /\ UNCHANGED <<builder, source, files, sidecars, opened, metastore>>

NextProductScd ==
    \E current_products \in ProductSnapshots, nulls_differ \in BOOLEAN :
        RunProductScd(current_products, nulls_differ)

SpecProductScd == InitCoerce /\ [][NextProductScd]_vars

\* runs of both SCD scripts
NextScd == NextCustomerScd \/ NextProductScd

SpecScd == InitCoerce /\ [][NextScd]_vars

(***************************************************************************)
(* src/08_security/implement_row_level_security.py: SecureDataAccess reads *)
(* data/warehouse/fact_sales.parquet and dim_customer.parquet; of a sales  *)
(* row the model keeps Order_ID and customer_sk.                           *)
(***************************************************************************)
\* the most sales rows of a dataset
MaxOrders == 2

\* a fact_sales whose i-th row was sold to customer f[i]
sales_rows(f) ==
    [i \in DOMAIN f |-> << <<s_Order_ID, PyInt(i)>>, <<s_customer_sk, PyInt(f[i])>> >>]

\* two customers, each in region East or West or with no region, and sales
\* rows of customers 1, 2 and of a customer_sk that dim_customer lacks
SalesSources ==
    {[Source("ok", c, <<>>) EXCEPT !.fact_sales = sales_rows(f)] :
        c \in [1..2 -> 1..3], f \in UNION {[1..n -> 1..3] : n \in 0..MaxOrders}}

\* left.merge(right, on=key): the inner join, in the order of the left rows
RECURSIVE merge_on(_, _, _)
merge_on(left, right, key) ==
    IF left = <<>> THEN <<>>
    ELSE LET matching == SelectSeq(right, LAMBDA r : get(r, key) = get(Head(left), key))
         IN [i \in DOMAIN matching |->
                Head(left) \o SelectSeq(matching[i], LAMBDA item : item[1] # key)]
            \o merge_on(Tail(left), right, key)

\* `not self.user_region`: None and the empty string are falsy
falsy(value) == value = NaN \/ value = PyStr(<<>>)

\* a get_sales_data that gives a Store_Manager what it gives an Analyst
get_sales_data_unfiltered(user_role, user_region, src) ==
    IF user_role \in {"Admin", "Store_Manager", "Analyst"}
    THEN merge_on(src.fact_sales, src.dim_customer, s_customer_sk)
    ELSE <<>>

get_sales_data(user_role, user_region, src) ==
    LET sales_with_region == merge_on(src.fact_sales, src.dim_customer, s_customer_sk)
    IN IF user_role = "Admin" THEN sales_with_region
       ELSE IF user_role = "Store_Manager"
       THEN IF falsy(user_region) THEN <<>>
            ELSE SelectSeq(sales_with_region, LAMBDA r : get(r, s_Region) = user_region)
       ELSE IF user_role = "Analyst" THEN sales_with_region
       ELSE <<>>

UserRoles == {"Admin", "Store_Manager", "Analyst", "Cashier"}

UserRegions == {NaN, PyStr(<<>>), PyStr(East), PyStr(West)}

InitSecurity ==
    /\ source \in SalesSources
    /\ files = <<>>
    /\ sidecars = <<>>
    /\ opened = FALSE
    /\ metastore = <<>>
    /\ last = [op |-> "none"]
    /\ builder = Idle
    /\ history = NoHistory

\* SecureDataAccess(user_role, user_region).get_sales_data()
GetSalesData(user_role, user_region) ==
    /\ last' = [op |-> "get_sales_data", user_role |-> user_role,
                user_region |-> user_region,
                result |-> get_sales_data(user_role, user_region, source)]
    /\ UNCHANGED <<history, builder, source, files, sidecars, opened, metastore>>

NextSecurity ==
    \E user_role \in UserRoles, user_region \in UserRegions :
        GetSalesData(user_role, user_region)

SpecSecurity == InitSecurity /\ [][NextSecurity]_vars

(***************************************************************************)
(* What a build is given to write, read off the source tables: per table   *)
(* its partition columns in the order of the directory levels, and per     *)
(* input row the payload that goes into a data file and the value of each  *)
(* partition column the row is written with.                               *)
(***************************************************************************)
PartitionColumns(table_name) ==
    IF table_name = t_dim_customer THEN <<s_region>>
    ELSE IF table_name = t_dim_product THEN <<s_category>>
    ELSE IF table_name = t_dim_date THEN <<s_year>>
    ELSE IF table_name = t_fact_sales THEN <<s_order_year, s_order_month>>
    ELSE IF table_name = t_fact_shipments THEN <<s_ship_year, s_ship_month>>
    ELSE <<>>

InputDim(df, src_col, dir_col) ==
    [i \in DOMAIN df |->
        [payload |-> SelectSeq(df[i], LAMBDA item : item[1] # src_col),
         part |-> << <<dir_col, get(df[i], src_col)>> >>]]

InputFact(df, year_col, month_col) ==
    [i \in DOMAIN df |->
        [payload |-> df[i],
         part |-> << <<year_col, PyInt(Calendar[get(df[i], s_date_sk).v][1])>>,
                     <<month_col, PyInt(Calendar[get(df[i], s_date_sk).v][2])>> >>]]

InputRows(table_name) ==
    IF table_name = t_dim_customer THEN InputDim(source.dim_customer, s_Region, s_region)
    ELSE IF table_name = t_dim_product THEN InputDim(source.dim_product, s_Category, s_category)
    ELSE IF table_name = t_dim_date THEN InputDim(source.dim_date, s_year, s_year)
    ELSE IF table_name = t_fact_sales
    THEN InputFact(source.fact_sales, s_order_year, s_order_month)
    ELSE IF table_name = t_fact_shipments
    THEN InputFact(source.fact_shipments, s_ship_year, s_ship_month)
    ELSE IF table_name = t_dim_location
    THEN [i \in DOMAIN source.dim_location |->
             [payload |-> source.dim_location[i], part |-> <<>>]]
    ELSE <<>>

\* the tree on disk is the one the builder leaves for the source tables
Intact ==
    /\ source.status = "ok"
    /\ files = hive_style_warehouse(EmptyWarehouse, source).files
    /\ sidecars = hive_style_warehouse(EmptyWarehouse, source).sidecars

\* the last call was read_table on a table of the cached metastore
IsRead == last.op = "read_table" /\ last.table_name \in DOMAIN metastore

\* the input row holds value in every column of the filter (Python ==)
Matches(input, partitions) ==
    \A i \in DOMAIN partitions :
        \E k \in DOMAIN input.part : input.part[k] = partitions[i]

\* the filter names partition columns of the table only, with values of the
\* type the builder partitions by
OnPartitionColumns(table_name, partitions) ==
    \A i \in DOMAIN partitions :
        /\ partitions[i][1] \in Range(PartitionColumns(table_name))
        /\ partitions[i][2].t = (IF table_name \in {t_dim_customer, t_dim_product}
                                 THEN "str" ELSE "int")

\* a row without the partition columns of its table
Payload(table_name, row) ==
    RowFn(SelectSeq(row, LAMBDA item : item[1] \notin Range(PartitionColumns(table_name))))

\* the input row as read_table is to return it: the payload with every
\* partition column attached as the string str(value)
ExpectedRow(input) ==
    RowFn(input.payload
          \o [k \in DOMAIN input.part |-> <<input.part[k][1], PyStr(str(input.part[k][2]))>>])

MatchingInputs(table_name, partitions) ==
    SelectSeq(InputRows(table_name), LAMBDA input : Matches(input, partitions))

PayloadsOf(inputs) == SeqToBag([i \in DOMAIN inputs |-> RowFn(inputs[i].payload)])

ReturnedPayloads ==
    SeqToBag([i \in DOMAIN last.result.df |-> Payload(last.table_name, last.result.df[i])])

\* the data files on disk that hold a row matching the filter
MatchingFiles(table_name, partitions) ==
    {path_of(f) : f \in {g \in Range(files) :
        /\ g.table = table_name
        /\ \E i \in DOMAIN InputRows(table_name) :
               /\ Matches(InputRows(table_name)[i], partitions)
               /\ InputRows(table_name)[i].payload \in Range(g.df)}}

(***************************************************************************)
(* C1.  Round trip: on the tree the builder leaves, a read_table of a      *)
(* table with no filter returns the bag of the input rows, each with every *)
(* partition column attached as the string str(value) it was written with. *)
(***************************************************************************)
C1_RoundTrip ==
    (IsRead /\ last.partitions = <<>> /\ Intact)
    => Rows(last.result.df)
       = SeqToBag([i \in DOMAIN InputRows(last.table_name) |->
                      ExpectedRow(InputRows(last.table_name)[i])])

(***************************************************************************)
(* C2.  Pruning correctness: on the tree the builder leaves, read_table    *)
(* under a filter on any of the table's partition columns returns exactly  *)
(* the input rows that hold the filter's value in each of its columns.     *)
(***************************************************************************)
C2_PruningCorrect ==
    (IsRead /\ last.partitions # <<>> /\ Intact
        /\ OnPartitionColumns(last.table_name, last.partitions))
    => ReturnedPayloads = PayloadsOf(MatchingInputs(last.table_name, last.partitions))

(***************************************************************************)
(* C3.  Pruning I/O: read_table under a non-empty filter opens exactly the *)
(* data files of the partitions that match the filter, one per matching    *)
(* partition.                                                              *)
(***************************************************************************)
C3_PruningIO ==
    (IsRead /\ last.partitions # <<>> /\ Intact
        /\ OnPartitionColumns(last.table_name, last.partitions))
    => /\ Range(last.result.opened) = MatchingFiles(last.table_name, last.partitions)
       /\ Len(last.result.opened)
          = Cardinality({MatchingInputs(last.table_name, last.partitions)[i].part :
                           i \in DOMAIN MatchingInputs(last.table_name, last.partitions)})

(***************************************************************************)
(* C4.  The lookup path follows the declared order of the partition        *)
(* columns and leaves the columns that are not filtered open: the same     *)
(* filter items in the other order give the same rows, and a filter on the *)
(* second partition column alone returns the matching rows of every value  *)
(* of the first.                                                           *)
(***************************************************************************)
C4_DeclaredOrder ==
    (IsRead /\ last.partitions # <<>> /\ Intact
        /\ OnPartitionColumns(last.table_name, last.partitions))
    => /\ Len(last.partitions) = 2
          => Rows(last.result.df)
             = Rows(read_table(metastore, files, last.table_name,
                               <<last.partitions[2], last.partitions[1]>>).df)
       /\ (Len(last.partitions) = 1 /\ Len(PartitionColumns(last.table_name)) = 2
              /\ last.partitions[1][1] = PartitionColumns(last.table_name)[2])
          => ReturnedPayloads = PayloadsOf(MatchingInputs(last.table_name, last.partitions))

\* the last call was read_table of one of the three HiveWarehouse classes
AnyRead == last.op \in {"read_table", "analytics_read_table", "verify_read_table"}

\* the source of the example: three sales in November 2017, two in December
ExampleSales == source.status = "ok" /\ source.fact_sales = fact_rows(DefaultSales)

(***************************************************************************)
(* C5.  A read_table under a filter that finds data returns every row with *)
(* each column of the filter holding the value the caller gave, of the     *)
(* type the caller gave; with three sales in (2017, 11) and two in         *)
(* (2017, 12), the filter (order_year 2017, order_month 11) returns three  *)
(* rows and the filter (order_year 2017) returns five.                     *)
(***************************************************************************)
C5_LiteralValues ==
    (AnyRead /\ last.table_name \in DOMAIN metastore /\ last.partitions # <<>>)
    => /\ \A i \in DOMAIN last.result.df : \A k \in DOMAIN last.partitions :
              /\ last.partitions[k][1] \in columns(last.result.df[i])
              /\ get(last.result.df[i], last.partitions[k][1]) = last.partitions[k][2]
       /\ (Intact /\ ExampleSales /\ last.table_name = t_fact_sales)
          => /\ last.partitions = << <<s_order_year, PyInt(2017)>>,
                                     <<s_order_month, PyInt(11)>> >>
                => Len(last.result.df) = 3
             /\ last.partitions = << <<s_order_year, PyInt(2017)>> >>
                => Len(last.result.df) = 5

\* the directory holds the value: its text is str(value), or str(value)
\* padded to two characters
DirHolds(dir, item) ==
    /\ "=" \in Range(dir)
    /\ split_once(dir)[1] = item[1]
    /\ split_once(dir)[2] \in {str(item[2]), zfill(str(item[2]), 2)}

\* the data file of the table lies under a directory col=value for every
\* item of the filter
FileMatches(file, table_name, partitions) ==
    /\ file.table = table_name
    /\ \A k \in DOMAIN partitions :
           \E d \in DOMAIN file.dirs : DirHolds(file.dirs[d], partitions[k])

(***************************************************************************)
(* C6.  Empty partition is not an error: read_table on a table of the      *)
(* cached metastore never raises, and when no data file on disk matches    *)
(* the filter (a value never written, a partition deleted, a table left    *)
(* without files) it returns the empty frame.                              *)
(***************************************************************************)
C6_EmptyNotError ==
    IsRead
    => /\ last.result.error = "none"
       /\ (~ \E f \in Range(files) : FileMatches(f, last.table_name, last.partitions))
          => last.result.df = <<>>

\* a partition that was written and then deleted is read
C6_Witness ==
    /\ IsRead
    /\ last.partitions = << <<s_order_year, PyInt(2017)>>, <<s_order_month, PyInt(11)>> >>
    /\ MatchingInputs(last.table_name, last.partitions) # <<>>
    /\ ~ \E f \in Range(files) : FileMatches(f, last.table_name, last.partitions)
    /\ last.result = Result("none", <<>>, <<>>)

(***************************************************************************)
(* C7.  Unknown table: read_table on a name that is not in the cached      *)
(* metastore raises the table-not-found error and opens no data file,      *)
(* whatever the filter and whatever lies on disk under that name.          *)
(***************************************************************************)
C7_UnknownTable ==
    (AnyRead /\ last.table_name \notin DOMAIN metastore)
    => last.result = Result("Table not found", <<>>, <<>>)

(***************************************************************************)
(* C8.  Reads are pure: a step of read_table, query, show_tables or        *)
(* show_partitions leaves the data files, the sidecars and the cached      *)
(* metastore as they were, so that the same call made again in the state   *)
(* it leaves returns what it returned.                                     *)
(***************************************************************************)
C8_ReadsPure ==
    [][last'.op \in {"read_table", "query", "show_tables", "show_partitions"}
       => /\ UNCHANGED <<files, sidecars, metastore>>
          /\ last'.op = "read_table"
             => last'.result = read_table(metastore', files', last'.table_name,
                                          last'.partitions)
          /\ last'.op = "query"
             => last'.result = query(metastore', files', last'.parts)
          /\ last'.op = "show_tables" => last'.lines = show_tables(metastore')
          /\ last'.op = "show_partitions"
             => last'.lines = show_partitions(metastore', files', last'.table_name)]_vars

\* a read that returned rows, with the tree and the cache as the build and
\* the open left them
C8_Witness ==
    /\ last.op = "read_table"
    /\ last.partitions = << <<s_order_year, PyInt(2017)>> >>
    /\ last.result.df # <<>>
    /\ Intact
    /\ metastore = sidecars

Months == 1..12

\* the directories Step 5 creates for the sales of one (year, month)
BuilderDirs(year, month) ==
    write_month_partitions(<<>>, t_fact_sales, <<>>, s_order_year, s_order_month,
                           << <<year, month>> >>)[1].dirs

(***************************************************************************)
(* C9.  Write-time and read-time paths agree: on the tree the builder      *)
(* leaves, the path read_table derives from the partition values of an     *)
(* input row is the directory of the data file that holds the row; for     *)
(* every month 1..12 the derived path is the directory Step 5 creates; and *)
(* the month values 1, '1' and '01' give the same path segment.            *)
(***************************************************************************)
C9_PathsAgree ==
    /\ Intact
       => \A t \in Tables : \A i \in DOMAIN InputRows(t) :
              LET input == InputRows(t)[i]
              IN (input.part # <<>> /\ \A k \in DOMAIN input.part : input.part[k][2] # NaN)
                 => \E f \in Range(files) :
                        /\ f.table = t
                        /\ f.dirs = path_pattern(input.part)
                        /\ input.payload \in Range(f.df)
    /\ \A year \in {2016, 2017} : \A month \in Months :
           path_pattern(<< <<s_order_year, PyInt(year)>>, <<s_order_month, PyInt(month)>> >>)
           = BuilderDirs(year, month)
    /\ \A col \in {s_order_month, s_ship_month} :
           /\ path_pattern(<< <<col, PyInt(1)>> >>) = path_pattern(<< <<col, PyStr(<<"0", "1">>)>> >>)
           /\ path_pattern(<< <<col, PyInt(1)>> >>) = path_pattern(<< <<col, PyStr(<<"1">>)>> >>)

\* the sales of January 2016 are read from the directory written for them
C9_Witness ==
    /\ IsRead
    /\ Intact
    /\ last.partitions = << <<s_order_year, PyInt(2016)>>, <<s_order_month, PyInt(1)>> >>
    /\ last.result.df # <<>>
    /\ last.result.opened = <<FilePath(t_fact_sales, BuilderDirs(2016, 1))>>

\* the input rows the builder writes: those with a value in every partition
\* column
Written(table_name) ==
    SelectSeq(InputRows(table_name),
              LAMBDA input : \A k \in DOMAIN input.part : input.part[k][2] # NaN)

\* the text a partition value has in a path read back from disk
PathText(item) ==
    IF endswith(item[1], s_month_suffix) THEN zfill(str(item[2]), 2) ELSE str(item[2])

\* a partition value that is not valid: its string form holds '=' or the
\* path separator
InvalidValue(value) ==
    value.t = "str" /\ ("=" \in Range(value.v) \/ "/" \in Range(value.v))

\* a full read of a table whose written partition values are all valid
IsAnalyticsFullRead ==
    /\ last.op = "analytics_read_table"
    /\ last.table_name \in DOMAIN metastore
    /\ last.partitions = <<>>
    /\ Intact
    /\ \A i \in DOMAIN Written(last.table_name) :
           \A k \in DOMAIN Written(last.table_name)[i].part :
               ~ InvalidValue(Written(last.table_name)[i].part[k][2])

(***************************************************************************)
(* C10, as stated.  Codec round trip: decoding the path the builder        *)
(* encoded for a row gives the row its partition columns back, each as the *)
(* string str(value) of the value it was written with.                     *)
(***************************************************************************)
C10_CodecRoundTrip ==
    IsAnalyticsFullRead
    => Rows(last.result.df)
       = SeqToBag([i \in DOMAIN Written(last.table_name) |->
                      ExpectedRow(Written(last.table_name)[i])])

(***************************************************************************)
(* C10, amended.  Decoding the path the builder encoded for a row gives    *)
(* the row its partition columns back under the same names, each as the    *)
(* string str(value), padded with zeros to two characters for a month      *)
(* column (the month 1 comes back as '01').                                *)
(***************************************************************************)
C10_CodecPadded ==
    IsAnalyticsFullRead
    => Rows(last.result.df)
       = SeqToBag([i \in DOMAIN Written(last.table_name) |->
                      RowFn(Written(last.table_name)[i].payload
                            \o [k \in DOMAIN Written(last.table_name)[i].part |->
                                   <<Written(last.table_name)[i].part[k][1],
                                     PyStr(PathText(Written(last.table_name)[i].part[k]))>>])])

\* a full read of fact_sales gives a sale of January back with month '01'
C10_Witness ==
    /\ IsAnalyticsFullRead
    /\ last.table_name = t_fact_sales
    /\ \E i \in DOMAIN last.result.df :
           /\ s_order_month \in columns(last.result.df[i])
           /\ get(last.result.df[i], s_order_month) = PyStr(<<"0", "1">>)

(***************************************************************************)
(* C11.  Invalid partition value: when a row of dim_customer or            *)
(* dim_product is to be partitioned by a value whose string form holds '=' *)
(* or the path separator, the builder fails and leaves no data file that   *)
(* holds the row.                                                          *)
(***************************************************************************)
C11_InvalidValueRejected ==
    last.op = "build"
    => \A t \in {t_dim_customer, t_dim_product} : \A i \in DOMAIN InputRows(t) :
           InvalidValue(InputRows(t)[i].part[1][2])
           => /\ last.exit_code # 0
              /\ ~ \E f \in Range(files) :
                       f.table = t /\ InputRows(t)[i].payload \in Range(f.df)

(***************************************************************************)
(* C12.  Metastore load: opening a HiveWarehouse succeeds whatever the     *)
(* sidecars are, and the mapping of the new instance holds exactly the     *)
(* tables whose sidecar is on disk and readable, each with the metadata of *)
(* its sidecar; a table whose sidecar is missing or not JSON is left out.  *)
(***************************************************************************)
C12_MetastoreLoad ==
    last.op = "open"
    => /\ last.error = "none"
       /\ opened
       /\ metastore = [t \in readable(sidecars) |-> sidecars[t]]

\* the partition value combinations of the rows the builder was given, in
\* the form the sidecar lists them in: the value for a dimension, the
\* (year, month) pair for a fact
Observed(table_name) ==
    {IF Len(PartitionColumns(table_name)) = 1
     THEN Written(table_name)[i].part[1][2]
     ELSE <<Written(table_name)[i].part[1][2].v, Written(table_name)[i].part[2][2].v>> :
        i \in DOMAIN Written(table_name)}

\* the directories the partition value combinations of the input stand for
ObservedDirs(table_name) ==
    {os_path_join([k \in DOMAIN Written(table_name)[i].part |->
                      segment(Written(table_name)[i].part[k][1],
                              PathText(Written(table_name)[i].part[k]))]) :
        i \in DOMAIN Written(table_name)}

FilesOf(tree, table_name) == glob(tree, table_name, <<>>)

(***************************************************************************)
(* C14.  Ordering of a table write: at every point of a run of the         *)
(* builder, a table whose sidecar is on disk has all the data files the    *)
(* finished build gives it, and a read of it returns the rows of the       *)
(* finished table.                                                         *)
(***************************************************************************)
C14_SidecarLast ==
    builder.pc # "idle"
    => \A t \in DOMAIN sidecars :
           /\ Range(FilesOf(files, t))
              = Range(FilesOf(hive_style_warehouse(EmptyWarehouse, source).files, t))
           /\ (IsRead /\ last.table_name = t /\ last.partitions = <<>>)
              => Rows(last.result.df)
                 = Rows(read_table(metastore,
                                   hive_style_warehouse(EmptyWarehouse, source).files,
                                   t, <<>>).df)

(***************************************************************************)
(* C15.  A rebuild replaces every table wholesale: after a build that ran  *)
(* to its end, the directories that hold a data file are those of the      *)
(* partition values of this build's input, the data files hold rows of     *)
(* this build's input only, and each sidecar lists the partitions and the  *)
(* row count of this build's input; nothing of an earlier build is left.   *)
(***************************************************************************)
C15_Wholesale ==
    (last.op = "build" /\ last.exit_code = 0)
    => /\ DOMAIN sidecars = Tables
       /\ \A f \in Range(files) : f.table \in Tables
       /\ \A t \in Tables :
              /\ {f.dirs : f \in Range(FilesOf(files, t))}
                 = (IF PartitionColumns(t) = <<>> THEN {<<>>} ELSE ObservedDirs(t))
              /\ \A f \in Range(FilesOf(files, t)) :
                     Range(f.df) \subseteq {Written(t)[i].payload : i \in DOMAIN Written(t)}
              /\ PartitionColumns(t) # <<>>
                 => Range(sidecars[t].partitions) = Observed(t)
              /\ sidecars[t].record_count = Len(InputRows(t))

\* a build has ended on a tree that an earlier build had given partitions
\* this one does not have: the instance opened in between still lists them
C15_Witness ==
    /\ last.op = "build" /\ last.exit_code = 0
    /\ opened
    /\ \E t \in DOMAIN metastore :
           /\ PartitionColumns(t) # <<>>
           /\ \E x \in Range(metastore[t].partitions) : x \notin Range(sidecars[t].partitions)

(***************************************************************************)
(* C16.  On an instance opened on the built warehouse, whatever partition  *)
(* directories have been removed since: show_tables reports for every      *)
(* table the row count and the number of partitions of the build's input,  *)
(* and show_partitions lists exactly the directories of the table that     *)
(* hold a data file now, each with the rows of that file.                  *)
(***************************************************************************)
C16_Divergence ==
    (opened /\ metastore = sidecars /\ DOMAIN metastore = Tables)
    => /\ last.op = "show_tables"
          => last.lines
             = {[table |-> t,
                 record_count |-> Len(InputRows(t)),
                 partitions |-> IF PartitionColumns(t) = <<>> THEN 0
                                ELSE Cardinality(Observed(t))] : t \in Tables}
       /\ (last.op = "show_partitions" /\ FilesOf(files, last.table_name) # <<>>)
          => /\ {line.relative_path : line \in last.lines}
                = {f.dirs : f \in Range(FilesOf(files, last.table_name))}
             /\ \A line \in last.lines :
                    \E f \in Range(FilesOf(files, last.table_name)) :
                        f.dirs = line.relative_path /\ line.record_count = Len(f.df)

\* show_partitions of fact_sales after one of its partition directories was
\* removed: it lists a directory, and fewer rows than the sidecar counts
C16_Witness ==
    /\ opened /\ metastore = sidecars /\ DOMAIN metastore = Tables
    /\ last.op = "show_partitions" /\ last.table_name = t_fact_sales
    /\ FilesOf(files, t_fact_sales) # <<>>
    /\ Len(FilesOf(files, t_fact_sales)) < Len(metastore[t_fact_sales].partitions)
    /\ \E line \in last.lines : line.record_count > 0

(***************************************************************************)
(* C17.  Only the constructor sets the metastore of an instance: a build,  *)
(* a change of the source tables, a read_table or a show_tables leaves it  *)
(* as it is, so read_table does not find a table the mapping lacks, and    *)
(* show_tables lists the tables of the mapping with the row counts it      *)
(* holds, whatever sidecars are on disk by then.                           *)
(***************************************************************************)
C17_FixedAtOpen ==
    [][(opened /\ last'.op # "open")
       => /\ metastore' = metastore
          /\ (last'.op = "read_table" /\ last'.table_name \notin DOMAIN metastore)
             => last'.result = Result("Table not found", <<>>, <<>>)
          /\ last'.op = "show_tables"
             => /\ {line.table : line \in last'.lines} = DOMAIN metastore
                /\ \A line \in last'.lines :
                       line.record_count = metastore[line.table].record_count]_vars

\* read_table of a table whose sidecar was written after the instance was
\* opened: the sidecar is on disk and the instance does not know the table
C17_Witness ==
    /\ opened
    /\ last.op = "read_table"
    /\ last.table_name \in DOMAIN sidecars
    /\ last.table_name \notin DOMAIN metastore
    /\ last.result.error = "Table not found"

(***************************************************************************)
(* C18.  query of a text without the part FROM fails with "Query must      *)
(* contain FROM" and opens no file.                                        *)
(***************************************************************************)
C18_NoFrom ==
    (last.op = "query" /\ w_FROM \notin Range(last.parts))
    => last.result = Result("Query must contain FROM", <<>>, <<>>)

\* a text that names a built table the instance knows, without FROM
C18_Witness ==
    /\ last.op = "query"
    /\ last.parts = <<w_SELECT, <<"*">>, t_fact_sales>>
    /\ t_fact_sales \in DOMAIN metastore
    /\ FilesOf(files, t_fact_sales) # <<>>
    /\ last.result.error = "Query must contain FROM"

(***************************************************************************)
(* C19.  query of a text of the grammar returns what read_table returns    *)
(* for the table of the text and the filter that gives every column of a   *)
(* condition the value of its literal, and with no WHERE clause what       *)
(* read_table returns with no filter.                                      *)
(***************************************************************************)
C19_Translation ==
    last.op = "query"
    => \A q \in GrammarQueries :
           text_of(q) = last.parts
           => last.result
              = read_table(metastore, files, q.table_name,
                           [i \in DOMAIN q.conds |-> <<q.conds[i].col, q.conds[i].value>>])

(***************************************************************************)
(* C20.  The text right of the '=' of a condition, with the blanks and     *)
(* then the quotes at its ends removed, becomes an int if it is an integer *)
(* literal, else a float if it is a float literal, else the string that    *)
(* is left.                                                                *)
(***************************************************************************)
C20_Coercion ==
    last.op = "coerce"
    => LET text == trim(last.val)
       IN /\ int_parses(text) => last.value = PyInt(digits_value(strip(text, " ")))
          /\ (~int_parses(text) /\ float_parses(text))
             => last.value.t = "float" /\ last.value = float_value(text)
          /\ (~int_parses(text) /\ ~float_parses(text)) => last.value = PyStr(text)

\* the quote is trimmed from '1. and float() takes what int() has refused
C20_Witness ==
    /\ last.op = "coerce"
    /\ last.val = <<"'", "1", ".">>
    /\ last.value = PyFloat(1, <<>>)

(***************************************************************************)
(* C21.  After a build that ran to its end, every partitioned table has    *)
(* exactly one data file for each distinct combination of partition values *)
(* of its input and no other data file; the file of a combination is at    *)
(* <table>/<col1>=<v1>/.../data.parquet with the columns in the declared   *)
(* order, and no row of a data file holds a partition column of its table. *)
(***************************************************************************)
C21_Layout ==
    (last.op = "build" /\ last.exit_code = 0)
    => \A t \in {u \in Tables : PartitionColumns(u) # <<>>} :
           /\ \A i \in DOMAIN Written(t) :
                  /\ [k \in DOMAIN Written(t)[i].part |-> Written(t)[i].part[k][1]]
                     = PartitionColumns(t)
                  /\ Cardinality({n \in DOMAIN files :
                         /\ files[n].table = t
                         /\ files[n].dirs
                            = os_path_join([k \in DOMAIN PartitionColumns(t) |->
                                  segment(PartitionColumns(t)[k],
                                          PathText(Written(t)[i].part[k]))])}) = 1
           /\ Cardinality({n \in DOMAIN files : files[n].table = t})
              = Cardinality(Observed(t))
           /\ \A f \in Range(FilesOf(files, t)) : \A n \in DOMAIN f.df :
                  columns(f.df[n]) \cap Range(PartitionColumns(t)) = {}

\* a build has written fact_sales into two months of one year, from rows
\* that were dated through dim_date
C21_Witness ==
    /\ last.op = "build" /\ last.exit_code = 0
    /\ \E f, g \in Range(FilesOf(files, t_fact_sales)) :
           /\ f.dirs[1] = g.dirs[1] /\ f.dirs[2] # g.dirs[2]
           /\ f.df # <<>> /\ g.df # <<>>

(***************************************************************************)
(* C22.  A read_table(table) made while the builder runs returns the rows  *)
(* of the data files of the table that are on disk at that step: the rows  *)
(* the rmtree has not yet removed, or the rows the steps have written so   *)
(* far.  The witness is the interleaving of the claim: the instance was    *)
(* opened on the finished tree, and the read returns some and not all of   *)
(* the rows the build holds for the table.                                 *)
(***************************************************************************)
C22_ReadsWhatIsOnDisk ==
    (builder.pc # "idle" /\ IsRead /\ last.partitions = <<>>)
    => ReturnedPayloads
       = SeqToBag([i \in DOMAIN concat(read_parquet(FilesOf(files, last.table_name))) |->
                      Payload(last.table_name,
                              concat(read_parquet(FilesOf(files, last.table_name)))[i])])

C22_Witness ==
    /\ builder.pc # "idle"
    /\ IsRead /\ last.partitions = <<>>
    /\ metastore = hive_style_warehouse(EmptyWarehouse, source).sidecars
    /\ last.result.df # <<>>
    /\ Len(last.result.df) < Len(Written(last.table_name))
    /\ \A r \in DOMAIN ReturnedPayloads :
           ReturnedPayloads[r] <= PayloadsOf(Written(last.table_name))[r]

(***************************************************************************)
(* C23.  query of a text whose WHERE clause holds the range condition      *)
(* order_year>2016 either fails or returns only rows of fact_sales that    *)
(* are dated after 2016.                                                   *)
(***************************************************************************)
C23_NoConditionDropped ==
    (last.op = "query"
     /\ last.parts = select_from(t_fact_sales, <<s_order_year \o <<">">> \o IntStr(2016)>>))
    => \/ last.result.error # "none"
       \/ \A n \in DOMAIN last.result.df :
              \E i \in DOMAIN InputRows(t_fact_sales) :
                  /\ RowFn(InputRows(t_fact_sales)[i].payload)
                     = Payload(t_fact_sales, last.result.df[n])
                  /\ InputRows(t_fact_sales)[i].part[1][2].v > 2016

(***************************************************************************)
(* C24.  For the warehouse, table name and filter of any read_table call   *)
(* of hive_query_engine.py, the read_table of hive_analytics.py and the    *)
(* read_table of verify_all.py do as it does: all three raise, or all      *)
(* three return the same rows with the same columns and values.            *)
(***************************************************************************)
SameOutcome(a, b) ==
    \/ a.error # "none" /\ b.error # "none"
    \/ a.error = "none" /\ b.error = "none" /\ Rows(a.df) = Rows(b.df)

C24_CopiesAgree ==
    last.op = "read_table"
    => /\ SameOutcome(last.result,
                      analytics_read_table(metastore, files, last.table_name, last.partitions))
       /\ SameOutcome(last.result,
                      verify_read_table(files, last.table_name, last.partitions))

(***************************************************************************)
(* C25.  A run of the builder that ends with an error exit leaves the data *)
(* files and the sidecars of the warehouse as it found them.               *)
(***************************************************************************)
C25_FailedBuildKeeps ==
    [][(last'.op = "build" /\ last'.exit_code # 0)
       => (files' = files /\ sidecars' = sidecars)]_vars

(***************************************************************************)
(* C26.  After any runs of scd_customer.py, every Customer_ID of the       *)
(* dim_customer table of the last run has exactly one record of the        *)
(* history with Is_Current = 1, and that record holds the Customer_Name,   *)
(* Segment and Region of the table.                                        *)
(***************************************************************************)
CurrentOf(scd2, customer_id) ==
    {i \in DOMAIN scd2 : scd2[i].Customer_ID = customer_id /\ scd2[i].Is_Current = 1}

C26_OneCurrent ==
    last.op = "scd_customer"
    => \A n \in DOMAIN last.dim_customer :
           /\ Cardinality(CurrentOf(history.dim_customer_scd2.df,
                                    last.dim_customer[n].Customer_ID)) = 1
           /\ \A i \in CurrentOf(history.dim_customer_scd2.df,
                                 last.dim_customer[n].Customer_ID) :
                  /\ history.dim_customer_scd2.df[i].Customer_Name
                     = last.dim_customer[n].Customer_Name
                  /\ history.dim_customer_scd2.df[i].Segment = last.dim_customer[n].Segment
                  /\ history.dim_customer_scd2.df[i].Region = last.dim_customer[n].Region

(***************************************************************************)
(* C27.  After any runs of scd_customer.py, no two records of the history  *)
(* hold the same customer_sk.                                              *)
(***************************************************************************)
C27_UniqueKey ==
    last.op = "scd_customer"
    => \A i, j \in DOMAIN history.dim_customer_scd2.df :
           history.dim_customer_scd2.df[i].customer_sk = history.dim_customer_scd2.df[j].customer_sk
           => i = j

(***************************************************************************)
(* C28.  Every record of a non-empty previous history is in the history    *)
(* implement_product_scd2 returns, as it was or, if it was current, with   *)
(* End_Date set and Is_Current = 0; also the records of products that the  *)
(* snapshot does not hold.                                                 *)
(***************************************************************************)
Kept(record, df) ==
    \E i \in DOMAIN df :
        \/ df[i] = record
        \/ /\ record.Is_Current = 1
           /\ df[i].End_Date # NaT
           /\ df[i] = [record EXCEPT !.End_Date = df[i].End_Date, !.Is_Current = 0]

C28_AppendOnly ==
    (last.op = "scd_product" /\ last.previous_history.exists)
    => \A n \in DOMAIN last.previous_history.df :
           Kept(last.previous_history.df[n], history.dim_product_scd2.df)

(***************************************************************************)
(* C29.  A run of an SCD script on the dimension table its previous run    *)
(* had, with no run of the other script in between, leaves the history as  *)
(* it was: no record added, none expired, no Version changed.              *)
(***************************************************************************)
C29_Idempotent ==
    [][/\ (last.op = "scd_customer" /\ last'.op = "scd_customer"
           /\ last'.dim_customer = last.dim_customer)
          => SeqToBag(history'.dim_customer_scd2.df) = SeqToBag(history.dim_customer_scd2.df)
       /\ (last.op = "scd_product" /\ last'.op = "scd_product"
           /\ last'.current_snapshot = last.current_snapshot)
          => SeqToBag(history'.dim_product_scd2.df) = SeqToBag(history.dim_product_scd2.df)
      ]_vars

(***************************************************************************)
(* C30.  For a Store_Manager with a region r, get_sales_data returns the   *)
(* sales rows of the customers whose Region is r, each once and with its   *)
(* Region, and no other row; so it returns the same for any dataset whose  *)
(* sales rows of the customers of region r are the same.  For a            *)
(* Store_Manager with no region, and for a role that is not Admin,         *)
(* Store_Manager or Analyst, it returns no row.                            *)
(***************************************************************************)
RegionOf(src, sale) ==
    {get(src.dim_customer[k], s_Region) :
        k \in {j \in DOMAIN src.dim_customer :
                  get(src.dim_customer[j], s_customer_sk) = get(sale, s_customer_sk)}}

\* the sales rows of the dataset that belong to region r
SalesOfRegion(src, r) == SelectSeq(src.fact_sales, LAMBDA sale : r \in RegionOf(src, sale))

C30_RowLevel ==
    last.op = "get_sales_data"
    => /\ (last.user_role = "Store_Manager" /\ last.user_region \in {PyStr(East), PyStr(West)})
          => /\ Rows(last.result)
                = Rows([i \in DOMAIN SalesOfRegion(source, last.user_region) |->
                           Append(SalesOfRegion(source, last.user_region)[i],
                                  <<s_Region, last.user_region>>)])
             /\ \A other \in SalesSources :
                    SalesOfRegion(other, last.user_region)
                    = SalesOfRegion(source, last.user_region)
                    => get_sales_data(last.user_role, last.user_region, other) = last.result
       /\ (last.user_role = "Store_Manager" /\ last.user_region \in {NaN, PyStr(<<>>)})
          => last.result = <<>>
       /\ last.user_role \notin {"Admin", "Store_Manager", "Analyst"} => last.result = <<>>

\* the manager of West is given a sale of West while the dataset also holds
\* a sale of East
C30_Witness ==
    /\ last.op = "get_sales_data"
    /\ last.user_role = "Store_Manager" /\ last.user_region = PyStr(West)
    /\ last.result # <<>>
    /\ SalesOfRegion(source, PyStr(East)) # <<>>

====
